---- MODULE Spec2Model ----
(***************************************************************************)
(* Resilient indexing pipeline with recovery: the IndexerRecoveryService   *)
(* (controller), the IndexerEventEmitter it listens on, and the            *)
(* indexAccount worker it launches.                                        *)
(*                                                                         *)
(* JavaScript runs every handler to its next await, so one action is one   *)
(* such segment.  A run of start / retryFailedStep / resume / restart is   *)
(* a process whose position (pc) is the await it is suspended at.          *)
(***************************************************************************)
EXTENDS Integers, Sequences, FiniteSets, TLC

\* ------------------------------------------------------------------ bounds
\* Serial regime (a call is made only when no run is in flight): calls of
\* start / retryFailedStep / resume / restart per behaviour, distinct steps
\* whose wait times out per behaviour, and timeouts per behaviour.
MaxCalls == 2
MaxFaulty == 1
MaxTimeouts == 5
\* Again regime (start and restart are called again when a run has ended):
\* calls, and timeouts, per behaviour.
MaxAgainCalls == 2
MaxAgainEvents == 1
\* Overlap regime (calls are made at any time): calls, and emitter events
\* and timeouts, per behaviour.
MaxOverlapCalls == 2
MaxOverlapEvents == 1
\* Worker regime (the indexAccount promises make progress): calls per
\* behaviour.
MaxWorkerCalls == 1
\* Snapshot regime (a caller keeps a getState snapshot): calls, and emitter
\* events and timeouts, per behaviour.
MaxSnapCalls == 1
MaxSnapEvents == 4
\* Late recovery regime (the behaviour begins late in a run, retryFailedStep
\* and resume are called at any time): calls, the first included, and emitter
\* events and timeouts, per behaviour.
MaxLateCalls == 3
MaxLateEvents == 1
\* Late overlap regime (the overlap regime, entered late in a run): emitter
\* events and timeouts per behaviour.
MaxLateOverlapEvents == 2
\* Store regime (the UI store is connected to and disconnected from the
\* emitter): calls, and emitter events and timeouts, per behaviour.
MaxStoreCalls == 1
MaxStoreEvents == 2
\* Display regime (the UI store is connected and shows the progress of the
\* worker): calls per behaviour.
MaxDisplayCalls == 1
\* Stall regime (the workers make progress and nobody else emits, so that
\* every wait times out): calls, and timeouts, per behaviour.
MaxStallCalls == 1
MaxStallEvents == 3
\* Hook regime (the hook's restart replaces the service instance): calls,
\* and emitter events and timeouts, per behaviour.
MaxHookCalls == 2
MaxHookEvents == 1
\* Multi regime (the UI store is connected and indexAccountMultiTimeframe is
\* called): calls, timer callbacks and responses per behaviour; beyond them
\* a promise that runs alone, the other two having failed before they set a
\* timer, is followed to its end.
MaxMultiEvents == 3
\* Ticks of one progress animation, and pages with records, of an
\* indexAccount promise a call launched.
MaxWorkerTicks == 2
MaxWorkerPages == 1
\* Attempt numbers backoffDelay is applied to.
MaxAttempt == 8
\* Parts a message given to classifyError is made of.
MaxParts == 2
\* Times the clock the progress store reads (Date.now()) advances.
MaxClock == 1
\* Progress regime of the store: setStepProgress and completeStep are called
\* for the first MaxProgressSteps steps of the registry.
MaxProgressSteps == 2
\* Ticks of one progress animation of indexAccount.
MaxTicks == 2
\* Pages with records one indexAccount run fetches.
MaxPages == 2
\* Concurrent callers of the ConcurrencyManager, and the requests they make.
MaxCallers == 6
MaxRequests == 7

\* ------------------------------------------------------- program constants
MAX_RETRIES == 3
BASE_BACKOFF_MS == 1000

STEP_ORDER ==
  << "initializing", "fetching-transactions", "filtering-timeframes",
     "calculating-volume", "identifying-assets", "counting-contracts",
     "finalizing" >>

Steps == { STEP_ORDER[i] : i \in 1..Len(STEP_ORDER) }

\* STEP_ORDER.indexOf(step), 1-based.
IndexOf(step) == CHOOSE i \in 1..Len(STEP_ORDER) : STEP_ORDER[i] = step

\* null / undefined
NULL == "null"

\* ------------------------------------------------------------------- text
\* A message is a sequence of string parts; its text is the characters of
\* the parts in order, so that String.includes is a real substring test.
CharsOf(p) ==
  CASE p = "initializing" -> <<"i", "n", "i", "t", "i", "a", "l", "i", "z", "i", "n", "g">>
    [] p = "fetching-transactions" -> <<"f", "e", "t", "c", "h", "i", "n", "g", "-", "t", "r", "a", "n", "s", "a", "c", "t", "i", "o", "n", "s">>
    [] p = "filtering-timeframes" -> <<"f", "i", "l", "t", "e", "r", "i", "n", "g", "-", "t", "i", "m", "e", "f", "r", "a", "m", "e", "s">>
    [] p = "calculating-volume" -> <<"c", "a", "l", "c", "u", "l", "a", "t", "i", "n", "g", "-", "v", "o", "l", "u", "m", "e">>
    [] p = "identifying-assets" -> <<"i", "d", "e", "n", "t", "i", "f", "y", "i", "n", "g", "-", "a", "s", "s", "e", "t", "s">>
    [] p = "counting-contracts" -> <<"c", "o", "u", "n", "t", "i", "n", "g", "-", "c", "o", "n", "t", "r", "a", "c", "t", "s">>
    [] p = "finalizing" -> <<"f", "i", "n", "a", "l", "i", "z", "i", "n", "g">>
    [] p = "Step \"" -> <<"S", "t", "e", "p", " ", "\"">>
    [] p = "\" timed out after 30s" -> <<"\"", " ", "t", "i", "m", "e", "d", " ", "o", "u", "t", " ", "a", "f", "t", "e", "r", " ", "3", "0", "s">>
    [] p = "Network timeout. Please check your connection." -> <<"N", "e", "t", "w", "o", "r", "k", " ", "t", "i", "m", "e", "o", "u", "t", ".", " ", "P", "l", "e", "a", "s", "e", " ", "c", "h", "e", "c", "k", " ", "y", "o", "u", "r", " ", "c", "o", "n", "n", "e", "c", "t", "i", "o", "n", ".">>
    [] p = "Server error (500). Please try again later." -> <<"S", "e", "r", "v", "e", "r", " ", "e", "r", "r", "o", "r", " ", "(", "5", "0", "0", ")", ".", " ", "P", "l", "e", "a", "s", "e", " ", "t", "r", "y", " ", "a", "g", "a", "i", "n", " ", "l", "a", "t", "e", "r", ".">>
    [] p = "404" -> <<"4", "0", "4">>
    [] p = "429" -> <<"4", "2", "9">>
    [] p = "500" -> <<"5", "0", "0">>
    [] p = "Rate limit" -> <<"R", "a", "t", "e", " ", "l", "i", "m", "i", "t">>
    [] p = "Server error" -> <<"S", "e", "r", "v", "e", "r", " ", "e", "r", "r", "o", "r">>
    [] p = "Account not found" -> <<"A", "c", "c", "o", "u", "n", "t", " ", "n", "o", "t", " ", "f", "o", "u", "n", "d">>
    [] p = "timeout" -> <<"t", "i", "m", "e", "o", "u", "t">>
    [] p = "ECONNABORTED" -> <<"E", "C", "O", "N", "N", "A", "B", "O", "R", "T", "E", "D">>
    [] p = "network" -> <<"n", "e", "t", "w", "o", "r", "k">>
    [] p = "connection" -> <<"c", "o", "n", "n", "e", "c", "t", "i", "o", "n">>
    [] p = "Failed to fetch" -> <<"F", "a", "i", "l", "e", "d", " ", "t", "o", " ", "f", "e", "t", "c", "h">>
    [] p = "FETCH" -> <<"F", "E", "T", "C", "H">>
    [] p = "Timeout" -> <<"T", "i", "m", "e", "o", "u", "t">>
    [] p = "time" -> <<"t", "i", "m", "e">>
    [] p = "out" -> <<"o", "u", "t">>
    [] p = "something unexpected" -> <<"s", "o", "m", "e", "t", "h", "i", "n", "g", " ", "u", "n", "e", "x", "p", "e", "c", "t", "e", "d">>
LowerOf(c) ==
  CASE c = "A" -> "a"
    [] c = "B" -> "b"
    [] c = "C" -> "c"
    [] c = "D" -> "d"
    [] c = "E" -> "e"
    [] c = "F" -> "f"
    [] c = "G" -> "g"
    [] c = "H" -> "h"
    [] c = "I" -> "i"
    [] c = "J" -> "j"
    [] c = "K" -> "k"
    [] c = "L" -> "l"
    [] c = "M" -> "m"
    [] c = "N" -> "n"
    [] c = "O" -> "o"
    [] c = "P" -> "p"
    [] c = "Q" -> "q"
    [] c = "R" -> "r"
    [] c = "S" -> "s"
    [] c = "T" -> "t"
    [] c = "U" -> "u"
    [] c = "V" -> "v"
    [] c = "W" -> "w"
    [] c = "X" -> "x"
    [] c = "Y" -> "y"
    [] c = "Z" -> "z"
    [] OTHER -> c

RECURSIVE Text(_)
Text(msg) == IF msg = << >> THEN << >> ELSE CharsOf(Head(msg)) \o Text(Tail(msg))

\* String.prototype.includes
Includes(text, phrase) ==
  \E i \in 1..(Len(text) - Len(phrase) + 1) :
    \A j \in 1..Len(phrase) : text[i + j - 1] = phrase[j]

\* String.prototype.toLowerCase
ToLowerCase(text) == [i \in 1..Len(text) |-> LowerOf(text[i])]

TXT_404 == <<"4", "0", "4">>
TXT_429 == <<"4", "2", "9">>
TXT_500 == <<"5", "0", "0">>
TXT_RATE_LIMIT == <<"R", "a", "t", "e", " ", "l", "i", "m", "i", "t">>
TXT_SERVER_ERROR == <<"S", "e", "r", "v", "e", "r", " ", "e", "r", "r", "o", "r">>
TXT_ACCOUNT_NOT_FOUND == <<"A", "c", "c", "o", "u", "n", "t", " ", "n", "o", "t", " ", "f", "o", "u", "n", "d">>
TXT_TIMEOUT == <<"t", "i", "m", "e", "o", "u", "t">>
TXT_ECONNABORTED == <<"E", "C", "O", "N", "N", "A", "B", "O", "R", "T", "E", "D">>
TXT_NETWORK == <<"n", "e", "t", "w", "o", "r", "k">>
TXT_CONNECTION == <<"c", "o", "n", "n", "e", "c", "t", "i", "o", "n">>
TXT_FETCH == <<"f", "e", "t", "c", "h">>

\* Messages the worker's failures carry (emitted with step-error).
TimeoutMessage(step) == << "Step \"", step, "\" timed out after 30s" >>
NetworkTimeoutMessage == << "Network timeout. Please check your connection." >>
ServerErrorMessage == << "Server error (500). Please try again later." >>
ErrorMessages == { NetworkTimeoutMessage }

\* A caught value: its class (instanceof) and its message.
MkError(cls, msg) == [cls |-> cls, message |-> msg]

\* ------------------------------------------------------- error classifier
\* Mutant: the connectivity phrases are looked for before the API ones.
classifyError_NetworkFirst(err) ==
  LET isError == err.cls \in {"Error", "TypeError", "SyntaxError"}
      text == Text(err.message)
  IN  IF err.cls = "TypeError" /\ Includes(ToLowerCase(text), TXT_FETCH)
        THEN "network-error"
      ELSE IF err.cls = "SyntaxError"
        THEN "parsing-error"
      ELSE IF isError /\ ( \/ Includes(text, TXT_TIMEOUT)
                           \/ Includes(text, TXT_ECONNABORTED)
                           \/ Includes(text, TXT_NETWORK)
                           \/ Includes(text, TXT_CONNECTION) )
        THEN "network-error"
      ELSE "api-error"

classifyError(err) ==
  LET isError == err.cls \in {"Error", "TypeError", "SyntaxError"}
      text == Text(err.message)
  IN  IF err.cls = "TypeError" /\ Includes(ToLowerCase(text), TXT_FETCH)
        THEN "network-error"
      ELSE IF err.cls = "SyntaxError"
        THEN "parsing-error"
      ELSE IF isError /\ ( \/ Includes(text, TXT_404)
                           \/ Includes(text, TXT_429)
                           \/ Includes(text, TXT_500)
                           \/ Includes(text, TXT_RATE_LIMIT)
                           \/ Includes(text, TXT_SERVER_ERROR)
                           \/ Includes(text, TXT_ACCOUNT_NOT_FOUND) )
        THEN "api-error"
      ELSE IF isError /\ ( \/ Includes(text, TXT_TIMEOUT)
                           \/ Includes(text, TXT_ECONNABORTED)
                           \/ Includes(text, TXT_NETWORK)
                           \/ Includes(text, TXT_CONNECTION) )
        THEN "network-error"
      ELSE "api-error"

\* Mutant: only network errors are retried.
isRetryable_NetworkOnly(type) == type = "network-error"

isRetryable(type) == type = "api-error" \/ type = "network-error"

RECURSIVE Pow2(_)
Pow2(n) == IF n <= 0 THEN 1 ELSE 2 * Pow2(n - 1)

\* Mutant: the delay grows linearly.
backoffDelay_Linear(attempt) == BASE_BACKOFF_MS * attempt

backoffDelay(attempt) == BASE_BACKOFF_MS * Pow2(attempt - 1)

\* ------------------------------------------------------------------ values
Undefined == [kind |-> "undefined"]
Null == [kind |-> "null"]
True == [kind |-> "true"]
\* The IndexerResult that worker w resolves with.
Result(w) == [kind |-> "result", worker |-> w]
\* Arguments of EventEmitter.emit: a string, or the event object the
\* emitStep* wrappers build.
Str(s) == [kind |-> "string", value |-> s]
EventObject(type, step) == [kind |-> "object", type |-> type, step |-> step]

Max(S) == CHOOSE n \in S : \A m \in S : m <= n

Runs == 1..Max({MaxCalls, MaxAgainCalls, MaxOverlapCalls, MaxWorkerCalls, MaxSnapCalls,
                MaxLateCalls, MaxStoreCalls, MaxDisplayCalls, MaxStallCalls, MaxHookCalls})

\* `const timeframes: Timeframe[] = ["1w", "2w", "1m"]`
TIMEFRAMES == << "1w", "2w", "1m" >>

\* The indexAccount promises: that of each call of the service, numbered as
\* its run, and those of the timeframes of indexAccountMultiTimeframe.
TimeframePromise(i) == Max(Runs) + i
TimeframePromises == { TimeframePromise(i) : i \in 1..Len(TIMEFRAMES) }
Promises == Runs \cup TimeframePromises

InSeq(x, s) == \E i \in 1..Len(s) : s[i] = x

VARIABLES
  state,           \* this.state: the IndexerRecoveryState; stepStates is a reference
  heap,            \* the stepStates objects, by reference
  partialResults,  \* this.partialResults
  runs,            \* the calls of start / retryFailedStep / resume / restart
  workers,         \* the indexAccount promise each call launched
  listeners,       \* the listeners registered on the IndexerEventEmitter
  snap,            \* a snapshot an external caller obtained from getState
  calls,           \* calls made so far
  events,          \* timeouts so far, and emitter events (where they are counted)
  faulty,          \* steps that suffered a failed attempt (where they are bounded)
  limits,          \* what the environment does in this behaviour
  retired,         \* the service instance the hook's restart replaced
  applied,         \* the pure function last applied, its argument and its value
  store,           \* useIndexingStore: the state of the UI progress store
  now,             \* Date.now()
  saved,           \* localStorage: the persisted progress item
  indexer,         \* one indexAccount run: where it is, its currentEmittedStep
  trace,           \* the events that run has emitted, in order
  manager,         \* the ConcurrencyManager: active and queue
  callers,         \* where each caller of run is
  submitted        \* calls of run so far

vars == << state, heap, partialResults, runs, workers, listeners, snap,
           calls, events, faulty, limits, retired, applied, store, now, saved, indexer,
           trace, manager, callers, submitted >>

\* The UI progress store and its clock.
ui == << store, now, saved >>

\* One run of indexAccount, taken alone.
service == << indexer, trace >>

\* The ConcurrencyManager and its callers, taken alone.
pool == << manager, callers, submitted >>

\* ------------------------------------------------------------- environment
\* The callers, the emitter's other users and the timers are explored in twelve
\* regimes.  overlap: calls are made while a run is in flight.  counted: the
\* emitter's events (stepComplete, stepError, indexing-cancelled) and the
\* timeouts are counted against `events`; otherwise nobody emits stepError,
\* the timeouts alone are counted against `events` and the number of
\* distinct steps whose wait times out is bounded by `faulty`.  raw: a holder of the emitter emits stepComplete and stepError.
\* worker: the indexAccount promises make progress within the behaviour, and
\* a call is made when the promises of the calls before it have settled.
\* snaps: a caller takes and keeps a getState snapshot.  store: the UI store
\* connects to the emitter and disconnects from it.  clock: the UI connects
\* the store and starts the display before the first call, and Date.now()
\* advances with the worker's timers.  fresh: the callers call start and
\* restart (otherwise only retryFailedStep and resume); callers that do not
\* overlap their calls begin with one of the two and recover afterwards,
\* unless (again) they call the two when a run has ended as well.  hook: the callers
\* call start and the hook's restart, which replaces the service instance.
\* multi: the UI calls indexAccountMultiTimeframe, and not the service, once
\* it has connected the store and started the display.
Serial ==
  [ name |-> "serial", overlap |-> FALSE, calls |-> MaxCalls, counted |-> FALSE,
    events |-> MaxTimeouts, faulty |-> MaxFaulty, worker |-> FALSE, snaps |-> FALSE,
    late |-> FALSE, store |-> FALSE, fresh |-> TRUE, raw |-> TRUE,
    clock |-> FALSE, hook |-> FALSE, multi |-> FALSE, again |-> FALSE ]
Again ==
  [ Serial EXCEPT !.name = "again", !.calls = MaxAgainCalls, !.events = MaxAgainEvents,
                  !.faulty = MaxAgainEvents, !.again = TRUE ]
Overlap ==
  [ Serial EXCEPT !.name = "overlap", !.overlap = TRUE, !.calls = MaxOverlapCalls,
                  !.counted = TRUE, !.events = MaxOverlapEvents, !.faulty = 0 ]
Worker ==
  [ Serial EXCEPT !.name = "worker", !.calls = MaxWorkerCalls, !.faulty = 0,
                  !.worker = TRUE ]
Stall ==
  [ Serial EXCEPT !.name = "stall", !.calls = MaxStallCalls, !.events = MaxStallEvents,
                  !.worker = TRUE, !.raw = FALSE ]
Snap ==
  [ Serial EXCEPT !.name = "snap", !.calls = MaxSnapCalls, !.counted = TRUE,
                  !.events = MaxSnapEvents, !.faulty = 0, !.snaps = TRUE ]
Store ==
  [ Serial EXCEPT !.name = "store", !.calls = MaxStoreCalls, !.counted = TRUE,
                  !.events = MaxStoreEvents, !.faulty = 0, !.store = TRUE ]
Display ==
  [ Serial EXCEPT !.name = "display", !.calls = MaxDisplayCalls, !.faulty = 0,
                  !.store = TRUE, !.worker = TRUE, !.raw = FALSE, !.clock = TRUE ]
Hook ==
  [ Overlap EXCEPT !.name = "hook", !.calls = MaxHookCalls, !.events = MaxHookEvents,
                   !.hook = TRUE ]
Multi ==
  [ Display EXCEPT !.name = "multi", !.calls = 0, !.events = MaxMultiEvents,
                   !.multi = TRUE ]
\* The overlap regime again, entered late in a run: the behaviour begins
\* where the first call's run sleeps in its last backoff (LateInit).
Late == [Overlap EXCEPT !.name = "late", !.events = MaxLateOverlapEvents, !.late = TRUE]
\* The same again for callers that only recover (retryFailedStep, resume).
LateRecovery ==
  [Late EXCEPT !.name = "late-recovery", !.calls = MaxLateCalls,
               !.events = MaxLateEvents, !.fresh = FALSE]
Regimes ==
  { Serial, Again, Overlap, Worker, Stall, Snap, Late, LateRecovery, Store, Display, Hook, Multi }

\* ----------------------------------------------------------- recovery state
InitialStepStates ==
  [s \in Steps |-> [step |-> s, status |-> "idle", error |-> Undefined,
                    completedAt |-> Undefined]]

\* makeInitialRecoveryState: stepStates is a new object, here at reference id.
makeInitialRecoveryState(id) ==
  [ sessionId |-> id,
    stepStates |-> id,
    completedSteps |-> << >>,
    failedStep |-> NULL,
    isPartial |-> FALSE,
    totalRetries |-> 0,
    pendingAction |-> NULL ]

\* { ...old, ...patch }
Merge(old, patch) ==
  [f \in DOMAIN old |-> IF f \in DOMAIN patch THEN patch[f] ELSE old[f]]

\* patchStep: replaces the entry of the stepStates object this.state refers to.
patchStep(h, st, step, patch) ==
  [h EXCEPT ![st.stepStates][step] = Merge(@, patch)]

\* getState / emit: { ...this.state }
Snapshot(st) == [kind |-> "snapshot", value |-> st]

\* What a holder of a snapshot reads through it.
View(sn, h) ==
  [ sessionId |-> sn.value.sessionId,
    stepStates |-> h[sn.value.stepStates],
    completedSteps |-> sn.value.completedSteps,
    failedStep |-> sn.value.failedStep,
    isPartial |-> sn.value.isPartial,
    totalRetries |-> sn.value.totalRetries,
    pendingAction |-> sn.value.pendingAction ]

\* No service instance has been replaced.
NoInstance == [kind |-> "none"]

\* A replaced instance: its state and its partialResults, which the runs and
\* the workers it launched still use.
Instance(st, pr) == [kind |-> "instance", state |-> st, partialResults |-> pr]

\* The stepStates objects still referenced by the state, by the snapshot or
\* by the replaced instance.
Live(st, sn, old) ==
  {st.stepStates} \cup (IF sn.kind = "snapshot" THEN {sn.value.stepStates} ELSE {})
                 \cup (IF old.kind = "instance" THEN {old.state.stepStates} ELSE {})

Collect(h, st, sn, old) == [ref \in Live(st, sn, old) |-> h[ref]]

\* reset(): a new state with a new sessionId, and empty partialResults.
Allocate(h, id) == [ref \in DOMAIN h \cup {id} |-> IF ref = id THEN InitialStepStates ELSE h[ref]]

NoPartialResults == [s \in Steps |-> Undefined]

\* Mutant: the identifier of the session in progress is drawn again.
randomUUID_Repeating(held) == CHOOSE id \in held : TRUE

\* crypto.randomUUID(): an identifier distinct from those in `held` (the
\* least such number, so that identifiers no longer held are named anew).
randomUUID(held) ==
  CHOOSE id \in 1..(Cardinality(held) + 1) :
    id \notin held /\ \A j \in 1..(id - 1) : j \in held

\* The session identifiers a reader of the state, of a snapshot or of the
\* replaced instance holds.
HeldIds(st, sn, old) ==
  {st.sessionId} \cup (IF sn.kind = "snapshot" THEN {sn.value.sessionId} ELSE {})
                \cup (IF old.kind = "instance" THEN {old.state.sessionId} ELSE {})

\* ------------------------------------------------------------------- clock
\* Math.min, Math.max
Least(a, b) == IF a <= b THEN a ELSE b
Greatest(a, b) == IF a >= b THEN a ELSE b

\* Date.now() at construction.
Epoch == 1000

\* Date.now() in a task that was due at a given time: a timer does not fire
\* before it is due, and the clock does not go back.
Clock(due) == Greatest(now, due)

\* setTimeout(..., 30_000) of awaitStep.
AwaitStepTimeout == 30000

\* ---------------------------------------------------------------- processes
\* own: the run belongs to the instance the callers hold (not to a replaced one).
\* since: Date.now() when the timer the run waits on was set (the 30 s timer
\* of awaitStep, the timer of sleep(delay)); delay: the delay of that sleep.
IdleRun ==
  [ pc |-> "idle", method |-> "none", phase |-> "none", step |-> "initializing",
    attempt |-> 0, err |-> Undefined, ok |-> FALSE, ret |-> Undefined,
    delay |-> 0, since |-> 0, own |-> TRUE ]

\* A call that has returned: its frame is gone, its value is with the caller.
Returned(value) == [IdleRun EXCEPT !.pc = "done", !.ret = value]

\* An indexAccount promise: where it is, its currentEmittedStep, the ticks of
\* its interval and the pages it has fetched, and whether the instance the
\* callers hold launched it.
\* since: startTime of animateStep, fetchStart of the fetch step; elapsed:
\* fetchElapsed; got: how the page request settled.
NoWorker ==
  [ pc |-> "none", step |-> "initializing", ticks |-> 0, pages |-> 0, own |-> TRUE,
    since |-> 0, elapsed |-> 0, got |-> "none" ]

\* indexAccount at its first await: `await workFn()` of animateStep("initializing").
LaunchedWorker == [NoWorker EXCEPT !.pc = "working", !.step = STEP_ORDER[1], !.since = now]

\* A promise that has settled: its frame is gone.
Settled(worker, pc) ==
  [worker EXCEPT !.pc = pc, !.ticks = 0, !.pages = 0, !.since = 0, !.elapsed = 0,
                 !.got = "none"]

\* indexAccount rejected before its try block: getHorizonServer(network) threw.
RejectedWorker == Settled(NoWorker, "failed")

ControllerListeners(r) ==
  { [event |-> "stepComplete", handler |-> "onComplete", owner |-> r],
    [event |-> "stepError", handler |-> "onError", owner |-> r] }

\* The state after construction.
FreshInit ==
  /\ state = makeInitialRecoveryState(1)
  /\ heap = [ref \in {1} |-> InitialStepStates]
  /\ partialResults = NoPartialResults
  /\ runs = [r \in Runs |-> IdleRun]
  /\ workers = [w \in Promises |-> NoWorker]
  /\ listeners = {}
  /\ calls = 0

\* The state after start(), the completion of "initializing" and three
\* timeouts of "fetching-transactions": the run of start() sleeps in the
\* backoff before attempt 4.
LateStep == STEP_ORDER[2]

\* Date.now() then: three timeouts and the two sleeps between them after
\* construction.
LateClock ==
  Epoch + MAX_RETRIES * AwaitStepTimeout + backoffDelay(1) + backoffDelay(2)

\* The state of the run of start() then.
LateRun ==
  [IdleRun EXCEPT !.pc = "sleeping", !.method = "start", !.phase = "runFrom",
                  !.step = LateStep, !.attempt = MAX_RETRIES,
                  !.delay = backoffDelay(MAX_RETRIES), !.since = LateClock]

\* The indexAccount promise of start(), launched at construction time.
LateWorker == [LaunchedWorker EXCEPT !.since = Epoch]

LateError ==
  [ kind |-> "error", step |-> LateStep,
    type |-> classifyError(MkError("Error", TimeoutMessage(LateStep))),
    message |-> TimeoutMessage(LateStep),
    retryable |-> isRetryable(classifyError(MkError("Error", TimeoutMessage(LateStep)))),
    attempt |-> MAX_RETRIES ]

LateInit ==
  /\ state = [makeInitialRecoveryState(2) EXCEPT !.completedSteps = << STEP_ORDER[1] >>,
                                                  !.totalRetries = MAX_RETRIES]
  /\ heap = [ref \in {2} |->
               [InitialStepStates EXCEPT
                  ![STEP_ORDER[1]] = Merge(@, [status |-> "completed",
                                               completedAt |-> [kind |-> "timestamp"]]),
                  ![LateStep] = Merge(@, [status |-> "running", error |-> LateError])]]
  /\ partialResults = [NoPartialResults EXCEPT ![STEP_ORDER[1]] = True]
  /\ runs = [r \in Runs |-> IF r = 1 THEN LateRun ELSE IdleRun]
  /\ workers = [w \in Promises |-> IF w = 1 THEN LateWorker ELSE NoWorker]
  /\ listeners = {}
  /\ calls = 1

\* No pure function has been applied on its own.
\* ------------------------------------------------------------ IEEE-754 doubles
\* JavaScript numbers are binary64.  A non-negative double is m * 2^e with
\* m = 0 or 2^52 <= m < 2^53; m is held as its digits in base 2^15, least
\* significant first, so that no intermediate value leaves the 32-bit integers.
LIMB == 2^15

\* w, its operand v having been evaluated first (evaluation order only).
Then(v, w) == IF v = v THEN w ELSE w

\* The digits without leading (last) zeros.
RECURSIVE BigNorm(_)
BigNorm(a) ==
  IF a = << >> THEN a
  ELSE IF a[Len(a)] = 0 THEN BigNorm(SubSeq(a, 1, Len(a) - 1))
  ELSE a

\* The digits of a sequence of non-negative integers taken as digits with carries.
RECURSIVE BigCarry(_, _, _)
BigCarry(a, i, c) ==
  IF i > Len(a)
    THEN IF c = 0 THEN << >> ELSE << c % LIMB >> \o BigCarry(a, i, c \div LIMB)
    ELSE << (a[i] + c) % LIMB >> \o BigCarry(a, i + 1, (a[i] + c) \div LIMB)

BigCarried(a) == Then(a, BigNorm(BigCarry(a, 1, 0)))

BigOf(n) == BigCarried(<< n >>)

RECURSIVE BigInt(_)
BigInt(a) == IF a = << >> THEN 0 ELSE a[1] + LIMB * BigInt(Tail(a))

Digit(a, i) == IF i >= 1 /\ i <= Len(a) THEN a[i] ELSE 0

\* -1, 0, 1 as a < b, a = b, a > b, comparing from digit i down.
RECURSIVE BigCmpFrom(_, _, _)
BigCmpFrom(a, b, i) ==
  IF i = 0 THEN 0
  ELSE IF Digit(a, i) < Digit(b, i) THEN -1
  ELSE IF Digit(a, i) > Digit(b, i) THEN 1
  ELSE BigCmpFrom(a, b, i - 1)

BigCmp(a, b) ==
  Then(a, Then(b, BigCmpFrom(a, b, IF Len(a) > Len(b) THEN Len(a) ELSE Len(b))))

BigSum(a, b) ==
  BigCarried([i \in 1..(IF Len(a) > Len(b) THEN Len(a) ELSE Len(b)) |->
                Digit(a, i) + Digit(b, i)])

BigAdd(a, b) == Then(a, Then(b, BigSum(a, b)))

\* a - b for a >= b, from digit i on with borrow c.
RECURSIVE BigBorrow(_, _, _, _)
BigBorrow(a, b, i, c) ==
  IF i > Len(a) THEN << >>
  ELSE IF a[i] - Digit(b, i) - c < 0
    THEN << a[i] - Digit(b, i) - c + LIMB >> \o BigBorrow(a, b, i + 1, 1)
    ELSE << a[i] - Digit(b, i) - c >> \o BigBorrow(a, b, i + 1, 0)

BigSub(a, b) == Then(a, Then(b, BigNorm(BigBorrow(a, b, 1, 0))))

\* a * k for 0 <= k <= LIMB.
BigTimes(a, k) == Then(a, Then(k, BigCarried([i \in 1..Len(a) |-> a[i] * k])))

\* a * LIMB^n
BigShiftDigits(a, n) == Then(a, IF a = << >> THEN a ELSE [i \in 1..n |-> 0] \o a)

\* a * 2^s
BigShl(a, s) == Then(a, Then(s, BigShiftDigits(BigTimes(a, Pow2(s % 15)), s \div 15)))

\* a without its n lowest digits.
BigDropDigits(a, n) == IF n >= Len(a) THEN << >> ELSE SubSeq(a, n + 1, Len(a))

\* floor(d / k) for k a power of two up to LIMB / 2.
BigShrBits(d, k) ==
  Then(d, BigNorm([i \in 1..Len(d) |->
                     (d[i] \div k) + (Digit(d, i + 1) % k) * (LIMB \div k)]))

\* floor(a / 2^s)
BigShr(a, s) == Then(a, Then(s, BigShrBits(BigDropDigits(a, s \div 15), Pow2(s % 15))))

RECURSIVE BitsOf(_)
BitsOf(n) == IF n = 0 THEN 0 ELSE 1 + BitsOf(n \div 2)

\* The number of bits of a.
BigBits(a) == IF a = << >> THEN 0 ELSE 15 * (Len(a) - 1) + BitsOf(a[Len(a)])

\* a * b, the partial products of the digits of b from digit i on added to acc.
RECURSIVE BigMulFrom(_, _, _, _)
BigMulFrom(a, b, i, acc) ==
  Then(acc, IF i > Len(b) THEN acc
            ELSE BigMulFrom(a, b, i + 1,
                            BigAdd(acc, BigShiftDigits(BigTimes(a, b[i]), i - 1))))

BigMul(a, b) == Then(a, Then(b, BigMulFrom(a, b, 1, << >>)))

\* One digit of a long division: r < d * LIMB, and the top digit of d is at
\* least LIMB / 2, so the estimate from the leading digits is at most two
\* too large.
RECURSIVE BigFit(_, _, _)
BigFit(r, d, q) == IF BigCmp(BigTimes(d, q), r) > 0 THEN BigFit(r, d, q - 1) ELSE q

\* The estimate of that digit from the two leading digits of r.
BigEstimate(r, d) == (Digit(r, Len(d) + 1) * LIMB + Digit(r, Len(d))) \div d[Len(d)]

BigAtMost(est, most) == IF est >= most THEN most ELSE est

BigDigitOf(r, d) ==
  IF BigCmp(r, d) < 0 THEN 0
  ELSE BigFit(r, d, BigAtMost(BigEstimate(r, d), LIMB - 1))

\* Long division of the digits a[i], a[i-1], .. a[1] brought down one by one
\* onto the remainder r, the quotient digits so far being q:
\* << quotient, remainder >>.  BigDivDigit: r is the remainder with a[i]
\* brought down and digit the next digit of the quotient.
RECURSIVE BigDivFrom(_, _, _, _, _)
RECURSIVE BigDivDigit(_, _, _, _, _, _)
BigDivDigit(a, d, i, r, q, digit) ==
  Then(digit, BigDivFrom(a, d, i - 1, BigSub(r, BigTimes(d, digit)), << digit >> \o q))

BigBringDown(a, d, i, r, q) == Then(r, BigDivDigit(a, d, i, r, q, BigDigitOf(r, d)))

BigDivFrom(a, d, i, r, q) ==
  Then(r, Then(q, IF i = 0 THEN << BigNorm(q), r >>
                  ELSE BigBringDown(a, d, i, BigNorm(<< a[i] >> \o r), q)))

\* << floor(a / d), a mod d >> for d with its top digit at least LIMB / 2.
BigDivMod(a, d) == Then(a, Then(d, BigDivFrom(a, d, Len(a), << >>, << >>)))

\* m * 2^e for m of 53 or 54 bits, 54 only as 2^53.
F64Carry(m, e) ==
  Then(m, IF BigBits(m) > 53 THEN [m |-> BigShr(m, 1), e |-> e + 1]
          ELSE [m |-> m, e |-> e])

\* q or q + 1, as the remainder r is below or above half; the even one at half.
F64Nearest(q, r, half) ==
  Then(r, Then(half,
    IF BigCmp(r, half) > 0 \/ (BigCmp(r, half) = 0 /\ q[1] % 2 = 1)
      THEN BigAdd(q, << 1 >>)
      ELSE q))

\* n * 2^e rounded, n having 53 + s bits and q being floor(n / 2^s).
F64Shorten(n, e, s, q) ==
  Then(q, F64Carry(F64Nearest(q, BigSub(n, BigShl(q, s)), BigShl(<< 1 >>, s - 1)), e + s))

\* n * 2^e rounded, n > 0 having that many bits.
F64Bits(n, e, bits) ==
  IF bits <= 53 THEN [m |-> BigShl(n, 53 - bits), e |-> e - (53 - bits)]
  ELSE F64Shorten(n, e, bits - 53, BigShr(n, bits - 53))

\* The double nearest to n * 2^e, ties to even.
F64Round(n, e) ==
  IF n = << >> THEN [m |-> << >>, e |-> 0] ELSE F64Bits(n, e, BigBits(n))

F64(n, e) == Then(n, Then(e, F64Round(n, e)))

\* An integer as a double.
F64Of(n) == F64(BigOf(n), 0)

\* The smaller exponent of two doubles.
F64Exp(x, y) == IF x.e < y.e THEN x.e ELSE y.e

\* x + y
F64Sum(x, y) ==
  IF x.m = << >> THEN y
  ELSE IF y.m = << >> THEN x
  ELSE F64(BigAdd(BigShl(x.m, x.e - F64Exp(x, y)), BigShl(y.m, y.e - F64Exp(x, y))),
           F64Exp(x, y))

F64Add(x, y) == Then(x, Then(y, F64Sum(x, y)))

\* x - y for x >= y
F64Difference(x, y) ==
  IF y.m = << >> THEN x
  ELSE F64(BigSub(BigShl(x.m, x.e - F64Exp(x, y)), BigShl(y.m, y.e - F64Exp(x, y))),
           F64Exp(x, y))

F64Sub(x, y) == Then(x, Then(y, F64Difference(x, y)))

\* x * y
F64Mul(x, y) == Then(x, Then(y, F64(BigMul(x.m, y.m), x.e + y.e)))

\* The double of qr[1] * 2^e, qr[1] being a quotient of 57 bits with the
\* remainder qr[2], which is kept as a sticky bit.
F64Sticky(qr, e) ==
  Then(qr, F64(BigAdd(BigShl(qr[1], 1), IF qr[2] = << >> THEN << >> ELSE << 1 >>), e - 1))

\* x / y for y > 0: the quotient of the mantissas to 57 bits and a sticky bit.
F64Quotient(x, y) ==
  IF x.m = << >> THEN x
  ELSE F64Sticky(BigDivMod(BigShl(x.m, 63), BigShl(y.m, 7)), x.e - y.e - 56)

F64Div(x, y) == Then(x, Then(y, F64Quotient(x, y)))

\* Math.round(x): floor(x + 0.5), exactly.
MathRound(x) ==
  Then(x, IF x.m = << >> THEN 0
          ELSE IF x.e >= 0 THEN BigInt(BigShl(x.m, x.e))
          ELSE BigInt(BigShr(BigAdd(x.m, BigShl(<< 1 >>, -x.e - 1)), -x.e)))

\* --------------------------------------------------------- the UI progress store
\* INDEXING_STEPS[step].weight
Weight(step) ==
  CASE step = "initializing" -> 5
    [] step = "fetching-transactions" -> 25
    [] step = "filtering-timeframes" -> 15
    [] step = "calculating-volume" -> 20
    [] step = "identifying-assets" -> 20
    [] step = "counting-contracts" -> 10
    [] step = "finalizing" -> 5

\* null, where a time is expected.
NoTime == -1

PERSISTENCE_TIMEOUT == 5 * 60 * 1000

initialCompletedStepRecord == [s \in Steps |-> FALSE]

initialState ==
  [ currentStep |-> NULL,
    stepProgress |-> [s \in Steps |-> 0],
    completedStepRecord |-> initialCompletedStepRecord,
    overallProgress |-> 0,
    completedSteps |-> 0,
    totalSteps |-> Len(STEP_ORDER),
    startTime |-> NoTime,
    estimatedTimeRemaining |-> NoTime,
    error |-> Null,
    isLoading |-> FALSE,
    isCancelled |-> FALSE ]

\* (progress / 100) * weight, in doubles, for each step and each whole
\* progress value 0..100.
StepShare ==
  [step \in Steps |->
     [progress \in 0..100 |->
        F64Mul(F64Div(F64Of(progress), F64Of(100)), F64Of(Weight(step)))]]

\* totalProgress after the forEach has visited the first n steps of STEP_ORDER.
RECURSIVE TotalProgress(_, _)
TotalProgress(stepProgress, n) ==
  IF n = 0 THEN F64Of(0)
  ELSE F64Add(TotalProgress(stepProgress, n - 1),
              StepShare[STEP_ORDER[n]][stepProgress[STEP_ORDER[n]]])

\* Math.max(0, n)
NotNegative(n) == IF n < 0 THEN 0 ELSE n

\* timePerPercent = elapsedTime / totalProgress;
\* Math.max(0, Math.round(timePerPercent * (100 - totalProgress)))
TimeRemaining(elapsedTime, totalProgress) ==
  NotNegative(MathRound(F64Mul(F64Div(F64Of(elapsedTime), totalProgress),
                               F64Sub(F64Of(100), totalProgress))))

\* The two fields updateOverallProgress sets, from totalProgress at time t:
\* the estimate only `if (startTime && totalProgress > 0)`.
WithTotalProgress(s, t, totalProgress) ==
  [s EXCEPT !.overallProgress = MathRound(totalProgress),
            !.estimatedTimeRemaining =
               IF s.startTime # NoTime /\ s.startTime # 0 /\ totalProgress.m # << >>
                 THEN TimeRemaining(t - s.startTime, totalProgress)
                 ELSE NoTime]

\* updateOverallProgress() at time t: nothing unless loading and not
\* cancelled; otherwise overallProgress and estimatedTimeRemaining are
\* recomputed from stepProgress and Date.now().
updateOverallProgress(s, t) ==
  IF ~s.isLoading \/ s.isCancelled THEN s
  ELSE WithTotalProgress(s, t, TotalProgress(s.stepProgress, Len(STEP_ORDER)))

\* Math.max(0, Math.min(100, progress))
Clamp(progress) == IF progress < 0 THEN 0 ELSE IF progress > 100 THEN 100 ELSE progress

\* The state after set({ currentStep: step }).
setCurrentStepState(s, step) == [s EXCEPT !.currentStep = step]

\* The state after setStepProgress's set().
setStepProgressState(s, step, progress) == [s EXCEPT !.stepProgress[step] = Clamp(progress)]

\* The state after setError's set().
setErrorState(s, step, message, recoverable) ==
  [s EXCEPT !.error = [kind |-> "error", step |-> step, message |-> message,
                       recoverable |-> recoverable],
            !.isLoading = FALSE]

\* The state after startIndexing's set() at time t.
startIndexingState(t) == [initialState EXCEPT !.isLoading = TRUE, !.startTime = t]

\* Mutant: the guard on the record is missing.
Recorded_Never(s, step) == FALSE

\* `if (record[step]) return state`
Recorded(s, step) == s.completedStepRecord[step]

\* The state the callback of completeStep's set() returns.
completeStepState(s, step) ==
  IF Recorded(s, step) THEN s
  ELSE [s EXCEPT !.completedStepRecord[step] = TRUE,
                 !.stepProgress[step] = 100,
                 !.completedSteps = IF @ + 1 < Len(STEP_ORDER) THEN @ + 1 ELSE Len(STEP_ORDER)]

\* The state after cancelIndexing's set().
cancelIndexingState(s) ==
  [s EXCEPT !.isCancelled = TRUE, !.isLoading = FALSE, !.currentStep = NULL]

\* localStorage[PERSISTENCE_KEY]: nothing, or the PersistedIndexingState last
\* written.  Its fields are a string or null and whole numbers, which
\* JSON.stringify and JSON.parse give back as they were.
NoItem == [kind |-> "none"]

\* saveState() at time t: the item, written only while loading and not
\* cancelled.
saveState(s, item, t) ==
  IF ~s.isLoading \/ s.isCancelled THEN item
  ELSE [ kind |-> "item",
         currentStep |-> s.currentStep,
         completedSteps |-> s.completedSteps,
         stepTimings |-> [step \in Steps |-> 0],
         startTime |-> s.startTime,
         timestamp |-> t ]

\* Whether loadState() at time t finds an item it restores.
loadStateReturns(item, t) ==
  item.kind = "item" /\ ~(t - item.timestamp > PERSISTENCE_TIMEOUT)

\* The state after loadState's set().
loadStateState(s, item) ==
  [s EXCEPT !.currentStep = item.currentStep,
            !.completedSteps = item.completedSteps,
            !.startTime = item.startTime,
            !.isLoading = item.currentStep # NULL,
            !.isCancelled = FALSE]

\* The store and the item it keeps in localStorage, together.
UI(s, item) == [store |-> s, saved |-> item]

\* The store in state s, after saveState() at time t.
Saving(s, item, t) == UI(s, saveState(s, item, t))

\* setCurrentStep(step) at time t
setCurrentStep(u, step, t) ==
  Saving(updateOverallProgress(setCurrentStepState(u.store, step), t), u.saved, t)

\* setStepProgress(step, progress) at time t
setStepProgress(u, step, progress, t) ==
  UI(updateOverallProgress(setStepProgressState(u.store, step, progress), t), u.saved)

\* setError(step, message, recoverable) at time t
setError(u, step, message, recoverable, t) ==
  Saving(setErrorState(u.store, step, message, recoverable), u.saved, t)

\* clearError()
clearError(u) == UI([u.store EXCEPT !.error = Null], u.saved)

\* startIndexing() at time t
startIndexing(u, t) == Saving(startIndexingState(t), u.saved, t)

\* completeStep(step) at time t
completeStep(u, step, t) ==
  Saving(updateOverallProgress(completeStepState(u.store, step), t), u.saved, t)

\* clearPersistedState()
clearPersistedState(u) == UI(u.store, NoItem)

\* cancelIndexing()
cancelIndexing(u) == clearPersistedState(UI(cancelIndexingState(u.store), u.saved))

\* reset() of the store
resetStore(u) == clearPersistedState(UI(initialState, u.saved))

\* loadState() at time t: nothing without an item; an item older than the
\* timeout is removed; otherwise its fields are restored.
loadState(u, t) ==
  IF u.saved.kind # "item" THEN u
  ELSE IF ~loadStateReturns(u.saved, t) THEN UI(u.store, NoItem)
  ELSE UI(loadStateState(u.store, u.saved), u.saved)

\* How far a short tick advances the clock.
ShortTick == 986

\* The store's callers are explored in three regimes.  complete: the steps
\* completeStep is called for.  progress: the steps setStepProgress is called
\* for.  named: the steps setCurrentStep and setError are called for.
\* persistence: setCurrentStep, setError, clearError, saveState, loadState
\* and clearPersistedState are called and the page is loaded anew.  ticks:
\* how far the clock advances at a time.
Completion ==
  [ name |-> "completion", complete |-> Steps, progress |-> {}, named |-> {},
    persistence |-> FALSE, ticks |-> { ShortTick } ]
Progress ==
  [ name |-> "progress", complete |-> { STEP_ORDER[i] : i \in 1..MaxProgressSteps },
    progress |-> { STEP_ORDER[i] : i \in 1..MaxProgressSteps }, named |-> {},
    persistence |-> FALSE, ticks |-> { ShortTick } ]
Persistence ==
  [ name |-> "persistence", complete |-> { STEP_ORDER[1] }, progress |-> {},
    named |-> { STEP_ORDER[1] }, persistence |-> TRUE,
    ticks |-> { PERSISTENCE_TIMEOUT, PERSISTENCE_TIMEOUT + 1 } ]
StoreRegimes == { Completion, Progress, Persistence }

\* The progress values step-progress events carry.
ProgressInputs == {58, 150}

\* The messages and flags setError is given.
SetErrorInputs == { << NetworkTimeoutMessage, TRUE >>, << ServerErrorMessage, FALSE >> }

StoreIdle ==
  /\ store = initialState
  /\ saved = NoItem
  /\ now = Epoch

\* The store and its item as they are.
Ui == UI(store, saved)

\* ------------------------------------------------------ one indexAccount run
\* The events of one run, in the order it emitted them.
emitStepChange(t, step) == Append(t, EventObject("step-change", step))
emitStepProgress(t, step) == Append(t, EventObject("step-progress", step))
emitStepComplete(t, step) == Append(t, EventObject("step-complete", step))
emitStepError(t, step) == Append(t, EventObject("step-error", step))
emitIndexingComplete(t) == Append(t, [kind |-> "object", type |-> "indexing-complete"])

\* indexAccount before its first statement.
IndexerIdle ==
  /\ indexer = [pc |-> "start", currentEmittedStep |-> STEP_ORDER[1], ticks |-> 0,
                pages |-> 0, got |-> "none"]
  /\ trace = << >>

\* ------------------------------------------------------- ConcurrencyManager
MAX_CONCURRENT_REQUESTS == 5

\* The callers of concurrencyManager.run: the indexAccount runs in progress.
Callers == 1..MaxCallers

\* Mutant: the loop lets a caller in whatever the count.
Full_Never(m) == FALSE

\* `this.active >= MAX_CONCURRENT_REQUESTS`
Full(m) == m.active >= MAX_CONCURRENT_REQUESTS

\* The manager after `this.active++`.
Entered(m) == [m EXCEPT !.active = @ + 1]

\* `finally { this.active--; ... }`
Release(m, outcome) == [m EXCEPT !.active = @ - 1]

\* The manager after the finally block of run: active--, queue.shift().
Left(m, outcome) ==
  IF Release(m, outcome).queue = << >> THEN Release(m, outcome)
  ELSE [Release(m, outcome) EXCEPT !.queue = Tail(@)]

\* The outcomes of one page request.
PageOutcomes == {"rejected", "empty", "more", "last"}

\* `private active = 0; private queue = []`, nobody calling.
PoolIdle ==
  /\ manager = [active |-> 0, queue |-> << >>]
  /\ callers = [c \in Callers |-> "new"]
  /\ submitted = 0

NothingApplied ==
  [fn |-> "none", input |-> Undefined, output |-> Undefined, pending |-> FALSE]

Init ==
  /\ limits \in Regimes
  /\ retired = NoInstance
  /\ store = initialState
  /\ saved = NoItem
  /\ now = (IF limits.late THEN LateClock ELSE Epoch)
  /\ IF limits.late THEN LateInit ELSE FreshInit
  /\ snap = Null
  /\ events = 0
  /\ faulty = {}
  /\ applied = NothingApplied
  /\ IndexerIdle
  /\ PoolIdle

\* ---------------------------------------------- the pure functions, applied
\* The values classifyError is given: instances of Error, TypeError and
\* SyntaxError, and plain strings, whose text is made of these parts.
ErrorClasses == { "Error", "TypeError", "SyntaxError", "string" }

Phrases ==
  { "404", "429", "500", "Rate limit", "Server error", "Account not found",
    "timeout", "ECONNABORTED", "network", "connection", "Failed to fetch",
    "FETCH", "Timeout", "time", "out", "something unexpected" }

Messages == UNION { [1..n -> Phrases] : n \in 0..MaxParts }

ErrorInputs == { MkError(cls, msg) : cls \in ErrorClasses, msg \in Messages }

\* A pure function about to be applied to an argument.
Pending(fn, input) ==
  [fn |-> fn, input |-> input, output |-> Undefined, pending |-> TRUE]

ClassifyError ==
  /\ applied.fn = "classifyError" /\ applied.pending
  /\ applied' = [applied EXCEPT !.output = classifyError(applied.input),
                                !.pending = FALSE]
  /\ UNCHANGED << state, heap, partialResults, runs, workers, listeners, snap,
                  calls, events, faulty, limits, retired, ui, service, pool >>

BackoffDelay ==
  /\ applied.fn = "backoffDelay" /\ applied.pending
  /\ applied' = [applied EXCEPT !.output = backoffDelay(applied.input),
                                !.pending = FALSE]
  /\ UNCHANGED << state, heap, partialResults, runs, workers, listeners, snap,
                  calls, events, faulty, limits, retired, ui, service, pool >>

PureInit ==
  /\ limits = Serial
  /\ retired = NoInstance
  /\ FreshInit
  /\ snap = Null
  /\ events = 0
  /\ faulty = {}
  /\ applied \in { Pending("classifyError", err) : err \in ErrorInputs }
                  \cup { Pending("backoffDelay", attempt) : attempt \in 1..MaxAttempt }
  /\ StoreIdle
  /\ IndexerIdle
  /\ PoolIdle

PureNext ==
  \/ ClassifyError
  \/ BackoffDelay

PureSpec == PureInit /\ [][PureNext]_vars

\* ------------------------------------------------- the UI progress store, used
\* The main variables stay as constructed while the store is exercised.
ControllerIdle ==
  UNCHANGED << state, heap, partialResults, runs, workers, listeners, snap,
               calls, events, faulty, limits, retired, applied, service, pool >>

\* The store and its item as an action leaves them.
Becomes(u) ==
  /\ store' = u.store
  /\ saved' = u.saved

\* startIndexing(): the initial state, loading, started now; saveState().
StartIndexing ==
  /\ Becomes(startIndexing(Ui, now))
  /\ UNCHANGED now
  /\ ControllerIdle

\* setCurrentStep(step): the step, then updateOverallProgress(), saveState().
SetCurrentStep(step) ==
  /\ step \in limits.named \cup {NULL}
  /\ limits.persistence
  /\ Becomes(setCurrentStep(Ui, step, now))
  /\ UNCHANGED now
  /\ ControllerIdle

\* completeStep(step): the guarded update, then updateOverallProgress(),
\* saveState().
CompleteStep(step) ==
  /\ step \in limits.complete
  /\ Becomes(completeStep(Ui, step, now))
  /\ UNCHANGED now
  /\ ControllerIdle

\* setStepProgress(step, progress): the clamped value, then updateOverallProgress().
SetStepProgress(step, progress) ==
  /\ step \in limits.progress
  /\ Becomes(setStepProgress(Ui, step, progress, now))
  /\ UNCHANGED now
  /\ ControllerIdle

\* updateOverallProgress(), called on its own.
UpdateOverallProgress ==
  /\ store' = updateOverallProgress(store, now)
  /\ UNCHANGED << now, saved >>
  /\ ControllerIdle

\* setError(step, message, recoverable): the error, not loading; saveState().
SetError(step, message, recoverable) ==
  /\ step \in limits.named
  /\ Becomes(setError(Ui, step, message, recoverable, now))
  /\ UNCHANGED now
  /\ ControllerIdle

\* clearError()
ClearError ==
  /\ limits.persistence
  /\ Becomes(clearError(Ui))
  /\ UNCHANGED now
  /\ ControllerIdle

\* cancelIndexing(): cancelled, then clearPersistedState().
CancelIndexing ==
  /\ Becomes(cancelIndexing(Ui))
  /\ UNCHANGED now
  /\ ControllerIdle

\* reset(): set(initialState), then clearPersistedState().
ResetStore ==
  /\ Becomes(resetStore(Ui))
  /\ UNCHANGED now
  /\ ControllerIdle

\* saveState(), called on its own.
SaveState ==
  /\ limits.persistence
  /\ saved' = saveState(store, saved, now)
  /\ UNCHANGED << now, store >>
  /\ ControllerIdle

\* loadState()
LoadState ==
  /\ limits.persistence
  /\ Becomes(loadState(Ui, now))
  /\ UNCHANGED now
  /\ ControllerIdle

\* clearPersistedState()
ClearPersistedState ==
  /\ limits.persistence
  /\ Becomes(clearPersistedState(Ui))
  /\ UNCHANGED now
  /\ ControllerIdle

\* The page is loaded anew: create() builds the store again, localStorage stays.
LoadPage ==
  /\ limits.persistence
  /\ store' = initialState
  /\ UNCHANGED << now, saved >>
  /\ ControllerIdle

\* Time passes: at most MaxClock ticks.
Tick(length) ==
  /\ now + length <= Epoch + MaxClock * length
  /\ now' = now + length
  /\ UNCHANGED << store, saved >>
  /\ ControllerIdle

StoreInit ==
  /\ limits \in StoreRegimes
  /\ retired = NoInstance
  /\ FreshInit
  /\ snap = Null
  /\ events = 0
  /\ faulty = {}
  /\ applied = NothingApplied
  /\ StoreIdle
  /\ IndexerIdle
  /\ PoolIdle

StoreNext ==
  \/ StartIndexing
  \/ \E step \in Steps \cup {NULL} : SetCurrentStep(step)
  \/ \E step \in Steps : CompleteStep(step)
  \/ \E step \in Steps, progress \in ProgressInputs : SetStepProgress(step, progress)
  \/ UpdateOverallProgress
  \/ \E step \in Steps, input \in SetErrorInputs : SetError(step, input[1], input[2])
  \/ ClearError
  \/ CancelIndexing
  \/ ResetStore
  \/ SaveState
  \/ LoadState
  \/ ClearPersistedState
  \/ LoadPage
  \/ \E length \in limits.ticks : Tick(length)

StoreSpec == StoreInit /\ [][StoreNext]_vars

\* ------------------------------------------------ one indexAccount run, used
\* Everything but the run and the manager stays as constructed.
OnlyIndexer ==
  UNCHANGED << state, heap, partialResults, runs, workers, listeners, snap,
               calls, events, faulty, limits, retired, applied, ui, callers, submitted >>

\* indexAccount to its first await: getHorizonServer(network), before the
\* try block, returns or throws; then currentEmittedStep = "initializing",
\* emitStepChange, animateStep calls workFn.
IndexAccountBegin(served) ==
  /\ indexer.pc = "start"
  /\ IF served
       THEN /\ trace' = emitStepChange(trace, STEP_ORDER[1])
            /\ indexer' = [indexer EXCEPT !.pc = "working",
                                          !.currentEmittedStep = STEP_ORDER[1]]
       ELSE /\ indexer' = [indexer EXCEPT !.pc = "failed"]
            /\ UNCHANGED trace
  /\ UNCHANGED manager
  /\ OnlyIndexer

\* The step the catch block names: currentEmittedStep.
catchStep(w) == w.currentEmittedStep

\* The catch block of indexAccount: emitStepError(currentEmittedStep, ...), rethrow.
Catch ==
  /\ trace' = emitStepError(trace, catchStep(indexer))
  /\ indexer' = [indexer EXCEPT !.pc = "failed", !.got = "none"]

\* animateStep: `await workFn()` returns, and the interval is set; or workFn throws.
WorkFn(ok) ==
  /\ indexer.pc = "working"
  /\ IF ok
       THEN /\ indexer' = [indexer EXCEPT !.pc = "animating", !.ticks = 0]
            /\ UNCHANGED trace
       ELSE Catch
  /\ UNCHANGED manager
  /\ OnlyIndexer

\* A tick of animateStep's interval: emitStepProgress; at the last tick
\* (elapsed >= duration) the interval is cleared and the promise resolved.
AnimateTick(last) ==
  /\ indexer.pc = "animating"
  /\ last \/ indexer.ticks + 1 < MaxTicks
  /\ trace' = emitStepProgress(trace, indexer.currentEmittedStep)
  /\ indexer' = [indexer EXCEPT !.ticks = @ + 1,
                                !.pc = IF last THEN "animated" ELSE "animating"]
  /\ UNCHANGED manager
  /\ OnlyIndexer

\* After a step is complete: the next step's emitStepChange and the
\* call of its work (concurrencyManager.run for "fetching-transactions":
\* active++ and the request is sent; workFn for the others); after
\* "finalizing", emitIndexingComplete and return.
Proceed(t, w) ==
  LET idx == IndexOf(w.currentEmittedStep)
  IN  IF idx = Len(STEP_ORDER)
        THEN /\ trace' = emitIndexingComplete(t)
             /\ indexer' = [w EXCEPT !.pc = "done"]
             /\ UNCHANGED manager
        ELSE /\ trace' = emitStepChange(t, STEP_ORDER[idx + 1])
             /\ indexer' = [w EXCEPT !.currentEmittedStep = STEP_ORDER[idx + 1],
                                     !.pc = IF idx + 1 = 2 THEN "fetching" ELSE "working"]
             /\ manager' = IF idx + 1 = 2 THEN Entered(manager) ELSE manager

\* animateStep's interval promise resolved: emitStepComplete(step), return.
AfterAnimate ==
  /\ indexer.pc = "animated"
  /\ trace' = emitStepComplete(trace, indexer.currentEmittedStep)
  /\ indexer' = [indexer EXCEPT !.pc = "completed"]
  /\ UNCHANGED manager
  /\ OnlyIndexer

\* `await animateStep(...)` of indexAccount resumes.
AfterStep ==
  /\ indexer.pc = "completed"
  /\ Proceed(trace, indexer)
  /\ OnlyIndexer

\* The request settles, and the finally block of run follows: active--.
RequestSettles(outcome) ==
  /\ indexer.pc = "fetching"
  /\ outcome = "more" => indexer.pages + 1 < MaxPages
  /\ manager' = Left(manager, outcome)
  /\ indexer' = [indexer EXCEPT !.pc = "fetched", !.got = outcome]
  /\ UNCHANGED trace
  /\ OnlyIndexer

\* The end of the fetch step: emitStepProgress(100), emitStepComplete.
FinishFetch(t, w) ==
  Proceed(emitStepComplete(emitStepProgress(t, w.currentEmittedStep), w.currentEmittedStep), w)

\* After the fetch loop: the padding interval if the step was quicker than
\* its estimated duration, the end of the step otherwise.
AfterLoop(t, w, pad) ==
  IF pad
    THEN /\ trace' = t
         /\ indexer' = [w EXCEPT !.pc = "padding", !.ticks = 0]
         /\ UNCHANGED manager
    ELSE FinishFetch(t, w)

\* `await concurrencyManager.run(...)` of indexAccount resumes: the request
\* rejected; the page is empty; the page has records and another follows
\* (run(fn) again: active++); the page has records and is the last (cutoff
\* reached or no cursor).
FetchPage(pad) ==
  /\ indexer.pc = "fetched"
  /\ CASE indexer.got = "rejected" -> ~pad /\ Catch /\ UNCHANGED manager
       [] indexer.got = "empty" -> AfterLoop(trace, [indexer EXCEPT !.got = "none"], pad)
       [] indexer.got = "more" ->
            /\ ~pad
            /\ trace' = emitStepProgress(trace, indexer.currentEmittedStep)
            /\ indexer' = [indexer EXCEPT !.pages = @ + 1, !.pc = "fetching",
                                          !.got = "none"]
            /\ manager' = Entered(manager)
       [] indexer.got = "last" ->
            AfterLoop(emitStepProgress(trace, indexer.currentEmittedStep),
                      [indexer EXCEPT !.pages = @ + 1, !.got = "none"], pad)
  /\ OnlyIndexer

\* A tick of the padding interval of the fetch step.
PadTick(last) ==
  /\ indexer.pc = "padding"
  /\ last \/ indexer.ticks + 1 < MaxTicks
  /\ trace' = emitStepProgress(trace, indexer.currentEmittedStep)
  /\ indexer' = [indexer EXCEPT !.ticks = @ + 1,
                                !.pc = IF last THEN "padded" ELSE "padding"]
  /\ UNCHANGED manager
  /\ OnlyIndexer

\* The padding promise resolved.
AfterPadding ==
  /\ indexer.pc = "padded"
  /\ FinishFetch(trace, indexer)
  /\ OnlyIndexer

IndexerInit ==
  /\ limits = Serial
  /\ retired = NoInstance
  /\ FreshInit
  /\ snap = Null
  /\ events = 0
  /\ faulty = {}
  /\ applied = NothingApplied
  /\ StoreIdle
  /\ IndexerIdle
  /\ PoolIdle

IndexerNext ==
  \/ \E served \in BOOLEAN : IndexAccountBegin(served)
  \/ \E ok \in BOOLEAN : WorkFn(ok)
  \/ \E last \in BOOLEAN : AnimateTick(last)
  \/ AfterAnimate
  \/ AfterStep
  \/ \E outcome \in PageOutcomes : RequestSettles(outcome)
  \/ \E pad \in BOOLEAN : FetchPage(pad)
  \/ \E last \in BOOLEAN : PadTick(last)
  \/ AfterPadding

IndexerSpec == IndexerInit /\ [][IndexerNext]_vars

\* ------------------------------------------------- ConcurrencyManager, used
\* Everything but the manager and its callers stays as constructed.
OnlyPool ==
  UNCHANGED << state, heap, partialResults, runs, workers, listeners, snap,
               calls, events, faulty, limits, retired, applied, ui, service >>

\* The head of run(fn), from the loop test on: while the manager is full the
\* caller pushes its resolver on the queue and waits; otherwise active++ and
\* fn is called.
Enter(c) ==
  IF Full(manager)
    THEN /\ manager' = [manager EXCEPT !.queue = Append(@, c)]
         /\ callers' = [callers EXCEPT ![c] = "waiting"]
    ELSE /\ manager' = Entered(manager)
         /\ callers' = [callers EXCEPT ![c] = "running"]

\* A caller calls run(fn): for the first time, the callers arriving in the
\* order of their numbers, or again after its last call returned.
Run(c) ==
  /\ \/ callers[c] = "idle"
     \/ callers[c] = "new" /\ \A b \in Callers : b < c => callers[b] # "new"
  /\ submitted < MaxRequests
  /\ submitted' = submitted + 1
  /\ Enter(c)
  /\ OnlyPool

\* A caller whose resolver was called resumes in the loop and tests again.
Recheck(c) ==
  /\ callers[c] = "woken"
  /\ Enter(c)
  /\ UNCHANGED submitted
  /\ OnlyPool

\* The promise of fn settles.
Outcomes == {"resolved", "rejected"}

Settle(c, outcome) ==
  /\ callers[c] = "running"
  /\ callers' = [callers EXCEPT ![c] = outcome]
  /\ UNCHANGED << manager, submitted >>
  /\ OnlyPool

\* The finally block of run, whether fn resolved or rejected: active--, and
\* the first resolver of the queue, if any, is called; run settles as fn did.
Finally(c) ==
  /\ callers[c] \in Outcomes
  /\ manager' = Left(manager, callers[c])
  /\ callers' = IF manager.queue = << >> THEN [callers EXCEPT ![c] = "idle"]
                ELSE [callers EXCEPT ![c] = "idle", ![Head(manager.queue)] = "woken"]
  /\ UNCHANGED submitted
  /\ OnlyPool

PoolInit ==
  /\ limits = Serial
  /\ retired = NoInstance
  /\ FreshInit
  /\ snap = Null
  /\ events = 0
  /\ faulty = {}
  /\ applied = NothingApplied
  /\ StoreIdle
  /\ IndexerIdle
  /\ PoolIdle

PoolNext ==
  \/ \E c \in Callers : Run(c)
  \/ \E c \in Callers : Recheck(c)
  \/ \E c \in Callers, outcome \in Outcomes : Settle(c, outcome)
  \/ \E c \in Callers : Finally(c)

\* Every request settles, and every continuation that is ready runs.
PoolFairness ==
  \A c \in Callers :
    /\ WF_vars(Recheck(c))
    /\ WF_vars(\E outcome \in Outcomes : Settle(c, outcome))
    /\ WF_vars(Finally(c))

PoolSpec == PoolInit /\ [][PoolNext]_vars /\ PoolFairness

\* ------------------------------------------------------------ runSingleStep
\* The synchronous head of runSingleStep(step, attempt): a step already in
\* completedSteps is marked skipped and the call returns true; otherwise the
\* step is marked running and awaitStep registers its two listeners.
\* Mutant: a completed step is run again.
Skips_Never(st, step) == FALSE

Skips(st, step) == InSeq(step, st.completedSteps)

runSingleStepHeap(h, st, step) ==
  IF Skips(st, step)
    THEN patchStep(h, st, step, [status |-> "skipped"])
    ELSE patchStep(h, st, step, [status |-> "running"])

\* t: Date.now() when awaitStep sets its timer.
runSingleStepRun(run, st, step, attempt, t) ==
  IF Skips(st, step)
    THEN [run EXCEPT !.pc = "returned", !.ok = TRUE, !.step = step,
                     !.attempt = attempt, !.err = Undefined, !.delay = 0,
                     !.since = 0]
    ELSE [run EXCEPT !.pc = "awaiting", !.ok = FALSE, !.step = step,
                     !.attempt = attempt, !.err = Undefined, !.delay = 0,
                     !.since = t]

awaitStepListeners(r, st, step) ==
  IF Skips(st, step) THEN {} ELSE ControllerListeners(r)

\* ----------------------------------------------------------------- emitter
\* EventEmitter.emit(event, ...args) calls the listeners registered for that
\* event name, synchronously.  onComplete(completedStep) and
\* onError(errorStep, message) act only when their first argument is the
\* step they wait for; the store's listeners call the store.
\* What an emitted event may change: the runs, the listeners, the store and
\* its persisted item.
World == [runs |-> runs, listeners |-> listeners, ui |-> Ui]

\* Mutant: a listener acts on the event of any step.
Matches_Any(args, step) == TRUE

\* `completedStep === step`, `errorStep === step`
Matches(args, step) == Len(args) >= 1 /\ args[1] = Str(step)

Completes(w, event, args) ==
  { r \in Runs :
      /\ [event |-> event, handler |-> "onComplete", owner |-> r] \in w.listeners
      /\ Matches(args, w.runs[r].step) }

Rejects(w, event, args) ==
  { r \in Runs :
      /\ [event |-> event, handler |-> "onError", owner |-> r] \in w.listeners
      /\ Matches(args, w.runs[r].step) }

\* Mutant: the listeners of a settled wait stay registered.
cleanup_Nothing(r, registered) == registered

\* Mutant: the wait rejects with a SyntaxError.
NewError_SyntaxError(message) == MkError("SyntaxError", message)

\* `reject(new Error(message))`: awaitStep rejects with a plain Error only.
NewError(message) == MkError("Error", message)

\* cleanup(): off("stepComplete", onComplete), off("stepError", onError).
cleanup(r, registered) == registered \ ControllerListeners(r)

RunsAfterEmit(w, event, args) ==
  [r \in Runs |->
     IF r \in Completes(w, event, args)
       THEN [w.runs[r] EXCEPT !.pc = "resolved", !.since = 0]
     ELSE IF r \in Rejects(w, event, args)
       THEN [w.runs[r] EXCEPT !.pc = "rejected", !.since = 0,
               !.err = NewError(IF Len(args) >= 2 THEN args[2].value ELSE << >>)]
     ELSE w.runs[r]]

ListenersAfterEmit(w, event, args) ==
  { l \in w.listeners :
      \A r \in Completes(w, event, args) \cup Rejects(w, event, args) :
        l \in cleanup(r, w.listeners) }

\* The listeners connectToStore registers, one per event of the wrappers.
StoreEvents ==
  { "step-change", "step-progress", "step-complete", "step-error",
    "indexing-complete", "indexing-cancelled" }

StoreListeners == { [event |-> e, handler |-> "store", owner |-> 0] : e \in StoreEvents }

\* The store's listener of the event is registered.
StoreListens(w, event) ==
  [event |-> event, handler |-> "store", owner |-> 0] \in w.listeners

\* emit(event, ...args): the controller's listeners of the event act; u is
\* the store and its item as the store's listener of the event, if any,
\* leaves them.
Emit(w, event, args, u) ==
  [ runs |-> RunsAfterEmit(w, event, args),
    listeners |-> ListenersAfterEmit(w, event, args),
    ui |-> u ]

\* IndexerEventEmitter's wrappers: the event name and the single event-object
\* argument.
emitStepChangeArgs(step) == << EventObject("step-change", step) >>
emitStepProgressArgs(step, progress) ==
  << [kind |-> "object", type |-> "step-progress", step |-> step, progress |-> progress] >>
emitStepCompleteArgs(step) == << EventObject("step-complete", step) >>
emitStepErrorArgs(step, message) ==
  << [kind |-> "object", type |-> "step-error", step |-> step,
      message |-> message, recoverable |-> TRUE] >>
emitIndexingCompleteArgs(result) ==
  << [kind |-> "object", type |-> "indexing-complete", data |-> result] >>
emitIndexingCancelledArgs == << [kind |-> "object", type |-> "indexing-cancelled"] >>

\* The wrappers at time t, each with the listener connectToStore registers
\* for its event: setCurrentStep(event.step), setStepProgress(event.step,
\* event.progress), completeStep(event.step), setError(event.step,
\* event.message, event.recoverable), clearPersistedState(), cancelIndexing().
StepChange(w, step, t) ==
  Emit(w, "step-change", emitStepChangeArgs(step),
       IF StoreListens(w, "step-change") THEN setCurrentStep(w.ui, step, t) ELSE w.ui)

StepProgress(w, step, progress, t) ==
  Emit(w, "step-progress", emitStepProgressArgs(step, progress),
       IF StoreListens(w, "step-progress")
         THEN setStepProgress(w.ui, step, progress, t) ELSE w.ui)

StepComplete(w, step, t) ==
  Emit(w, "step-complete", emitStepCompleteArgs(step),
       IF StoreListens(w, "step-complete") THEN completeStep(w.ui, step, t) ELSE w.ui)

StepError(w, step, message, t) ==
  Emit(w, "step-error", emitStepErrorArgs(step, message),
       IF StoreListens(w, "step-error")
         THEN setError(w.ui, step, message, TRUE, t) ELSE w.ui)

IndexingComplete(w, result) ==
  Emit(w, "indexing-complete", emitIndexingCompleteArgs(result),
       IF StoreListens(w, "indexing-complete") THEN clearPersistedState(w.ui) ELSE w.ui)

IndexingCancelled(w) ==
  Emit(w, "indexing-cancelled", emitIndexingCancelledArgs,
       IF StoreListens(w, "indexing-cancelled") THEN cancelIndexing(w.ui) ELSE w.ui)

\* The runs, the listeners, the store and its item as an emission leaves them.
Delivered(w) ==
  /\ runs' = w.runs
  /\ listeners' = w.listeners
  /\ Becomes(w.ui)

\* `const server = getHorizonServer(network)`, before the try block of
\* indexAccount, returns or throws.  Where neither the promises nor the store
\* are followed, a launch that throws differs from one that does not only in
\* the promise, which nothing reads: there the promise is kept as launched.
Served == IF limits.worker \/ limits.store THEN BOOLEAN ELSE {TRUE}

\* Mutant: the call launches no worker.
launchIndexAccount_None(w, served) == workers

\* launchIndexAccount: indexAccount runs to its first await, having emitted
\* step-change for the first step; or it rejects at once, having emitted
\* nothing, and the catch of launchIndexAccount swallows the rejection.
launchIndexAccount(w, served) ==
  [workers EXCEPT ![w] = IF served THEN LaunchedWorker ELSE RejectedWorker]

\* What the launch emits before that await.
LaunchEmits(w, served) == IF served THEN StepChange(w, STEP_ORDER[1], now) ELSE w

\* ------------------------------------------------------------------- calls
InFlight(r) == runs[r].pc \notin {"idle", "done"}

\* Where a worker waits for a promise continuation (a microtask): after
\* `await workFn()`, after the interval's resolve(), after animateStep
\* returned, after run(fn) returned, after indexAccount returned or threw.
WorkerContinues(worker) ==
  worker.pc \in {"working", "animated", "completed", "fetched", "padded", "resolved",
                 "rejected"}

\* Where Promise.allSettled of indexAccountMultiTimeframe is about to resolve:
\* the promises of the three timeframes have settled.
AllSettled == \A w \in TimeframePromises : workers[w].pc \in {"tf-success", "tf-failed"}

\* A setTimeout or setInterval callback, or a network response, runs as a
\* task of its own: only when no promise continuation (of a run or of a
\* worker) is pending.
TimersMayFire ==
  /\ \A q \in Runs : runs[q].pc \notin {"resolved", "rejected", "returned"}
  /\ \A w \in Promises : IF limits.worker THEN ~WorkerContinues(workers[w])
                         ELSE workers[w].pc # "resolved"
  /\ ~AllSettled

\* Where the workers make progress, the callers and the other users of the
\* emitter act in tasks of their own as well.
TasksMayRun == limits.worker => TimersMayFire

\* A worker that has not settled.
Active(worker) == worker.pc \notin {"none", "done", "failed"}

\* Where the workers make progress, a call is made when the workers of the
\* calls before it have settled.
WorkersSettled == limits.worker => \A w \in Promises : ~Active(workers[w])

\* The next call takes the next run slot.
CanCall(r) ==
  /\ ~limits.multi
  /\ r = calls + 1
  /\ calls < limits.calls
  /\ limits.overlap \/ \A q \in Runs : ~InFlight(q)
  /\ TasksMayRun
  /\ WorkersSettled

\* start and restart, as the regime's callers make them.
MayBegin == limits.fresh /\ (limits.overlap \/ limits.again \/ calls = 0)

\* A timeout of the wait of step, and an emitter event, within the regime's bound.
MayFail(step) ==
  /\ events < limits.events
  /\ limits.counted \/ Cardinality(faulty \cup {step}) <= limits.faulty

MayEmit == limits.raw /\ TasksMayRun /\ (limits.counted => events < limits.events)

MayEmitError == limits.raw /\ TasksMayRun /\ limits.counted /\ events < limits.events

\* The instance a run or a worker belongs to: the one the callers hold
\* (`state`, `partialResults`) or the one the hook's restart replaced.
StateOf(own) == IF own THEN state ELSE retired.state

PartialResultsOf(own) == IF own THEN partialResults ELSE retired.partialResults

\* The fields of that instance as an action of one of its runs leaves them.
Assign(own, st, pr) ==
  IF own
    THEN /\ state' = st
         /\ partialResults' = pr
         /\ UNCHANGED retired
    ELSE /\ retired' = Instance(st, pr)
         /\ UNCHANGED << state, partialResults >>

\* start(): reset(), pendingAction = null, runFrom("initializing").
\* restart(): reset(), pendingAction = "restart", then start().
\* The first runSingleStep of a call, after the launch left the runs, the
\* listeners and the store as in w.
FirstStep(r, run, st, step, w) ==
  /\ runs' = [w.runs EXCEPT ![r] = runSingleStepRun(run, st, step, 1, now)]
  /\ listeners' = w.listeners \cup awaitStepListeners(r, st, step)
  /\ Becomes(w.ui)

BeginRun(r, method, id) ==
  LET st == makeInitialRecoveryState(id)
      h0 == Allocate(heap, id)
      h1 == runSingleStepHeap(h0, st, STEP_ORDER[1])
      run == [IdleRun EXCEPT !.method = method, !.phase = "runFrom"]
  IN  /\ CanCall(r)
      /\ MayBegin
      /\ state' = st
      /\ heap' = Collect(h1, st, snap, retired)
      /\ partialResults' = NoPartialResults
      /\ \E served \in Served :
           /\ workers' = launchIndexAccount(r, served)
           /\ FirstStep(r, run, st, STEP_ORDER[1], LaunchEmits(World, served))
      /\ calls' = calls + 1
      /\ UNCHANGED << snap, events, faulty, limits, retired, applied, now, service, pool >>

Start(r) == BeginRun(r, "start", randomUUID(HeldIds(state, snap, retired)))

\* reset() draws one identifier, the reset() of start() the next.
Restart(r) ==
  LET first == randomUUID(HeldIds(state, snap, retired))
  IN  /\ ~limits.hook
      /\ BeginRun(r, "restart", randomUUID(HeldIds(state, snap, retired) \cup {first}))

\* Mutant: recovery starts the retry count again.
RecoverState_ZeroRetries(st, action) ==
  [st EXCEPT !.failedStep = NULL, !.pendingAction = action, !.totalRetries = 0]

\* Mutant: recovery opens a new session.
RecoverState_NewSession(st, action) ==
  [st EXCEPT !.failedStep = NULL, !.pendingAction = action, !.sessionId = @ + 1]

\* Mutant: recovery clears the partial flag.
RecoverState_NotPartial(st, action) ==
  [st EXCEPT !.failedStep = NULL, !.pendingAction = action, !.isPartial = FALSE]

\* Mutant: recovery forgets the completed steps.
RecoverState_Forgetting(st, action) ==
  [st EXCEPT !.failedStep = NULL, !.pendingAction = action, !.completedSteps = << >>]

\* The head of retryFailedStep() and resume(): failedStep is cleared and the
\* pending action marked; nothing else of the state is touched.
RecoverState(st, action) == [st EXCEPT !.failedStep = NULL, !.pendingAction = action]

\* Mutant: the guard lets a call through when nothing failed.
NothingFailed_Never(st) == FALSE

\* `if (!failed) return null`
NothingFailed(st) == st.failedStep = NULL

\* retryFailedStep() and resume(): both return null when failedStep is null;
\* otherwise they clear failedStep, mark the pending action, reset the failed
\* step to idle, launch the worker and run the failed step.
Recover(r, method, phase, action) ==
  /\ CanCall(r)
  /\ ~limits.hook
  /\ calls' = calls + 1
  /\ IF NothingFailed(state)
       THEN /\ runs' = [runs EXCEPT ![r] = Returned(Null)]
            /\ UNCHANGED << state, heap, partialResults, workers, listeners, store, saved >>
       ELSE LET failed == state.failedStep
                st == RecoverState(state, action)
                h1 == patchStep(heap, st, failed, [status |-> "idle", error |-> Undefined])
                h2 == runSingleStepHeap(h1, st, failed)
                run == [IdleRun EXCEPT !.method = method, !.phase = phase]
            IN  /\ state' = st
                /\ heap' = h2
                /\ \E served \in Served :
                     /\ workers' = launchIndexAccount(r, served)
                     /\ FirstStep(r, run, st, failed, LaunchEmits(World, served))
                /\ UNCHANGED partialResults
  /\ UNCHANGED << snap, events, faulty, limits, retired, applied, now, service, pool >>

RetryFailedStep(r) == Recover(r, "retryFailedStep", "retryFailedStep", "retry")

Resume(r) == Recover(r, "resume", "continueFrom", "resume")

\* getIndexerRecoveryService() after resetIndexerRecoveryService(): a new
\* instance, constructed with a state of its own.
NewService(id) == Instance(makeInitialRecoveryState(id), NoPartialResults)

\* The hook's restart: resetIndexerRecoveryService(), getIndexerRecoveryService()
\* and start() on the new instance.  The runs and the workers of the replaced
\* instance go on, with its state and on the shared emitter.  (One replaced
\* instance is followed: the one before it has nothing in flight.)
HookRestart(r) ==
  LET first == randomUUID(HeldIds(state, snap, NoInstance))
      old == Instance(state, partialResults)
      constructed == NewService(first)
      id == randomUUID(HeldIds(constructed.state, snap, old))
      st == makeInitialRecoveryState(id)
      h0 == Allocate(heap, id)
      h1 == runSingleStepHeap(h0, st, STEP_ORDER[1])
      run == [IdleRun EXCEPT !.method = "start", !.phase = "runFrom"]
      leaving == [World EXCEPT !.runs = [q \in Runs |->
                                          IF InFlight(q) THEN [runs[q] EXCEPT !.own = FALSE]
                                          ELSE runs[q]]]
  IN  /\ CanCall(r)
      /\ limits.hook
      /\ \A q \in Runs : InFlight(q) => runs[q].own
      /\ retired' = old
      /\ state' = st
      /\ heap' = Collect(h1, st, snap, old)
      /\ partialResults' = constructed.partialResults
      /\ \E served \in Served :
           /\ workers' = [q \in Promises |->
                            IF q = r THEN launchIndexAccount(r, served)[r]
                            ELSE IF Active(workers[q]) THEN [workers[q] EXCEPT !.own = FALSE]
                            ELSE workers[q]]
           /\ FirstStep(r, run, st, STEP_ORDER[1], LaunchEmits(leaving, served))
      /\ calls' = calls + 1
      /\ UNCHANGED << snap, events, faulty, limits, applied, now, service, pool >>

\* Mutant: the completed step is not recorded.
MarkCompleted_Unrecorded(st, step) == st

\* `this.state.completedSteps = [...this.state.completedSteps, step]`
MarkCompleted(st, step) == [st EXCEPT !.completedSteps = Append(@, step)]

\* ----------------------------------------------------- the steps of a run
\* The continuation of `await this.awaitStep(...)` when it resolved.
RunStepCompleted(r) ==
  /\ runs[r].pc = "resolved"
  /\ LET step == runs[r].step
         own == runs[r].own
         st == MarkCompleted(StateOf(own), step)
     IN  /\ Assign(own, st, [PartialResultsOf(own) EXCEPT ![step] = True])
         /\ heap' = patchStep(heap, st, step,
                      [status |-> "completed", completedAt |-> [kind |-> "timestamp"]])
         /\ runs' = [runs EXCEPT ![r].pc = "returned", ![r].ok = TRUE]
  /\ UNCHANGED << workers, listeners, snap, calls, events, faulty, limits, applied, ui, service, pool >>

\* Mutant: one retry too many.
ShouldRetry_OneMore(retryable, attempt) == retryable /\ attempt <= MAX_RETRIES + 1

\* `if (retryable && attempt <= MAX_RETRIES)`
ShouldRetry(retryable, attempt) == retryable /\ attempt <= MAX_RETRIES

\* Mutant: a retry marks the session partial.
ScheduleRetry_Partial(st) == [st EXCEPT !.totalRetries = @ + 1, !.isPartial = TRUE]

\* Mutant: a retry counted twice.
ScheduleRetry_Twice(st) == [st EXCEPT !.totalRetries = @ + 2]

\* `this.state.totalRetries++`
ScheduleRetry(st) == [st EXCEPT !.totalRetries = @ + 1]

\* Mutant: every halt is reported partial.
Halt_AlwaysPartial(st, step) == [st EXCEPT !.failedStep = step, !.isPartial = TRUE]

\* `this.state.failedStep = step; this.state.isPartial = completedSteps.length > 0`
Halt(st, step) == [st EXCEPT !.failedStep = step, !.isPartial = Len(st.completedSteps) > 0]

\* The catch block of runSingleStep.
RunStepRejected(r) ==
  /\ runs[r].pc = "rejected"
  /\ LET step == runs[r].step
         attempt == runs[r].attempt
         err == runs[r].err
         own == runs[r].own
         st == StateOf(own)
         type == classifyError(err)
         retryable == isRetryable(type)
         stepError == [ kind |-> "error", step |-> step, type |-> type,
                        message |-> err.message, retryable |-> retryable,
                        attempt |-> attempt ]
         h1 == patchStep(heap, st, step, [status |-> "failed", error |-> stepError])
     IN  IF ShouldRetry(retryable, attempt)
           THEN /\ Assign(own, ScheduleRetry(st), PartialResultsOf(own))
                /\ heap' = patchStep(h1, st, step, [status |-> "running"])
                /\ runs' = [runs EXCEPT ![r].pc = "sleeping", ![r].err = Undefined,
                                        ![r].delay = backoffDelay(attempt),
                                        ![r].since = now]
           ELSE /\ Assign(own, Halt(st, step), PartialResultsOf(own))
                /\ heap' = h1
                /\ runs' = [runs EXCEPT ![r].pc = "returned", ![r].ok = FALSE,
                                        ![r].err = Undefined]
  /\ UNCHANGED << workers, listeners, snap, calls, events, faulty, limits, applied, ui, service, pool >>

\* sleep(delay), delay = backoffDelay(attempt), is over, no sooner than
\* delay ms after it began: runSingleStep(step, opts, attempt + 1).
Wake(r) ==
  /\ runs[r].pc = "sleeping"
  /\ TimersMayFire
  /\ now' = Clock(runs[r].since + runs[r].delay)
  /\ LET step == runs[r].step
         st == StateOf(runs[r].own)
     IN  /\ heap' = runSingleStepHeap(heap, st, step)
         /\ runs' = [runs EXCEPT ![r] = runSingleStepRun(@, st, step, @.attempt + 1,
                                                          Clock(@.since + @.delay))]
         /\ listeners' = listeners \cup awaitStepListeners(r, st, step)
  /\ UNCHANGED << state, partialResults, workers, snap, calls, events, faulty, limits, retired, applied, store, saved, service, pool >>

\* Mutant: a halted run rejects the promise of the call.
HaltedOutcome_Rejecting == [kind |-> "rejected"]

\* `if (!ok) return null`: what a call whose run halted settles with.
HaltedOutcome == Null

\* partialResults["finalizing"] ?? null
Coalesce(v) == IF v = Undefined THEN Null ELSE v

\* The continuation of `await this.runSingleStep(...)` in runFrom,
\* retryFailedStep and continueFrom.
RunContinue(r) ==
  /\ runs[r].pc = "returned"
  /\ LET idx == IndexOf(runs[r].step)
         phase == runs[r].phase
         own == runs[r].own
         st == StateOf(own)
     IN  IF ~runs[r].ok
           THEN /\ runs' = [runs EXCEPT ![r] = Returned(HaltedOutcome)]
                /\ UNCHANGED << state, partialResults, retired, heap, listeners >>
         ELSE IF idx < Len(STEP_ORDER)
           THEN LET next == STEP_ORDER[idx + 1]
                    run == [runs[r] EXCEPT !.phase = IF phase = "retryFailedStep"
                                                       THEN "continueFrom" ELSE phase]
                IN  /\ heap' = runSingleStepHeap(heap, st, next)
                    /\ runs' = [runs EXCEPT ![r] = runSingleStepRun(run, st, next, 1, now)]
                    /\ listeners' = listeners \cup awaitStepListeners(r, st, next)
                    /\ UNCHANGED << state, partialResults, retired >>
         ELSE /\ Assign(own, IF phase = "runFrom" THEN st
                             ELSE [st EXCEPT !.pendingAction = NULL],
                        PartialResultsOf(own))
              /\ runs' = [runs EXCEPT ![r] =
                            Returned(Coalesce(PartialResultsOf(own)["finalizing"]))]
              /\ UNCHANGED << heap, listeners >>
  /\ UNCHANGED << workers, snap, calls, events, faulty, limits, applied, ui, service, pool >>

\* The 30 s timer of awaitStep fires while the wait is unsettled, no sooner
\* than 30000 ms after awaitStep set it and whatever the indexAccount
\* promises are doing: cleanup() and reject.  (After the wait has settled the
\* timer's callback changes nothing: the listeners are removed already and
\* the promise is settled.)
Timeout(r) ==
  /\ runs[r].pc = "awaiting"
  /\ TimersMayFire
  /\ MayFail(runs[r].step)
  /\ now' = Clock(runs[r].since + AwaitStepTimeout)
  /\ events' = events + 1
  /\ faulty' = IF limits.counted THEN faulty ELSE faulty \cup {runs[r].step}
  /\ listeners' = cleanup(r, listeners)
  /\ runs' = [runs EXCEPT ![r].pc = "rejected", ![r].since = 0,
                          ![r].err = NewError(TimeoutMessage(runs[r].step))]
  /\ UNCHANGED << state, heap, partialResults, workers, snap, calls, limits, retired, applied, store, saved, service, pool >>

\* ------------------------------------------------- other users of the emitter
\* emitter.emit("stepComplete", step), by any holder of the shared emitter.
\* An emission no listener acts on changes nothing: it is a stuttering step.
EmitStepCompleteEvent(step) ==
  /\ MayEmit
  /\ Completes(World, "stepComplete", << Str(step) >>) # {}
  /\ events' = IF limits.counted THEN events + 1 ELSE events
  /\ Delivered(Emit(World, "stepComplete", << Str(step) >>, Ui))
  /\ UNCHANGED << state, heap, partialResults, workers, snap, calls, faulty, limits, retired, applied, now, service, pool >>

\* emitter.emit("stepError", step, message), by any holder of the shared emitter
\* (again, an emission no listener acts on is a stuttering step).
EmitStepErrorEvent(step, message) ==
  /\ MayEmitError
  /\ Rejects(World, "stepError", << Str(step), Str(message) >>) # {}
  /\ events' = events + 1
  /\ UNCHANGED faulty
  /\ Delivered(Emit(World, "stepError", << Str(step), Str(message) >>, Ui))
  /\ UNCHANGED << state, heap, partialResults, workers, snap, calls, limits, retired, applied, now, service, pool >>

\* this.isConnected: set with the store listeners, cleared with them.
isConnected == StoreListeners \subseteq listeners

\* emitIndexingCancelled(), by the UI.
EmitIndexingCancelled ==
  /\ limits.store
  /\ limits.counted /\ events < limits.events
  /\ events' = events + 1
  /\ Delivered(IndexingCancelled(World))
  /\ UNCHANGED << state, heap, partialResults, workers, snap, calls, faulty, limits, retired, applied, now, service, pool >>

\* ------------------------------------------------------------------ worker
\* Everything but the workers, the clock, the manager and what the workers'
\* events reach.
OnlyWorkers ==
  UNCHANGED << state, heap, partialResults, snap, calls, faulty, limits,
               retired, applied, service, callers, submitted >>

\* The promises that have set a timer: those that got past the first workFn.
Started ==
  { w \in Promises :
      /\ workers[w].pc # "none"
      /\ ~( /\ workers[w].step = STEP_ORDER[1]
            /\ workers[w].pc \in {"rejected", "tf-failed", "failed"} ) }

\* A task of a worker: a callback of an interval, or a response.  In the
\* multi regime the tasks are counted, and beyond the regime's bound only a
\* promise that runs alone is followed.
WorkerTask ==
  /\ TimersMayFire
  /\ limits.multi => events < limits.events \/ Cardinality(Started) <= 1
  /\ events' = IF limits.multi /\ events < limits.events THEN events + 1 ELSE events

\* The period of the two intervals of indexAccount.
TickMs == 80

\* The cap of the progress a tick or a page reports, and the end of the fetch step.
LastTickProgress == 95
FullProgress == 100


\* INDEXING_STEPS[step].estimatedDuration
Duration(step) ==
  CASE step = "initializing" -> 500
    [] step = "fetching-transactions" -> 3000
    [] step = "filtering-timeframes" -> 1000
    [] step = "calculating-volume" -> 1500
    [] step = "identifying-assets" -> 1500
    [] step = "counting-contracts" -> 1000
    [] step = "finalizing" -> 500

\* Math.round((elapsed / duration) * 95), in doubles.
TimeShare(elapsed, duration) ==
  MathRound(F64Mul(F64Div(F64Of(elapsed), F64Of(duration)), F64Of(LastTickProgress)))

\* The catch block of indexAccount: emitStepError(currentEmittedStep, message,
\* true), rethrow; launchIndexAccount's catch swallows the rejection, the
\* catch of indexOneTimeframe runs next.
WorkerCatch(w, message) ==
  /\ Delivered(StepError(World, workers[w].step, message, now))
  /\ workers' = [workers EXCEPT ![w] = Settled(@, IF w \in Runs THEN "failed"
                                                  ELSE "rejected")]

\* animateStep: `await workFn()` returns, and the interval is set; or workFn throws.
WorkerWorkFn(w, ok, message) ==
  /\ limits.worker
  /\ workers[w].pc = "working"
  /\ IF ok
       THEN /\ workers' = [workers EXCEPT ![w].pc = "animating", ![w].ticks = 0]
            /\ UNCHANGED << runs, listeners, store, saved >>
       ELSE WorkerCatch(w, message)
  /\ UNCHANGED << now, manager, events >>
  /\ OnlyWorkers

\* A callback of animateStep's interval at time t: emitStepProgress; when
\* elapsed >= duration the interval is cleared and the promise resolved.
AnimateAt(w, t, elapsed, duration) ==
  /\ now' = t
  /\ Delivered(StepProgress(World, workers[w].step,
                            Least(LastTickProgress, TimeShare(elapsed, duration)), t))
  /\ workers' = [workers EXCEPT
                   ![w].ticks = IF elapsed >= duration THEN 0 ELSE @ + 1,
                   ![w].pc = IF elapsed >= duration THEN "animated" ELSE "animating"]

\* The next callback of the interval runs: when it is due, 80 ms after the
\* one before, or late, when the estimated duration has passed.
WorkerAnimateTick(w, late) ==
  /\ limits.worker
  /\ workers[w].pc = "animating"
  /\ WorkerTask
  /\ late \/ workers[w].ticks + 1 < MaxWorkerTicks
  /\ AnimateAt(w, Clock(workers[w].since + (IF late THEN Duration(workers[w].step)
                                            ELSE TickMs * (workers[w].ticks + 1))),
               Clock(workers[w].since + (IF late THEN Duration(workers[w].step)
                                         ELSE TickMs * (workers[w].ticks + 1)))
                 - workers[w].since,
               Duration(workers[w].step))
  /\ UNCHANGED manager
  /\ OnlyWorkers

\* animateStep's interval promise resolved: emitStepComplete(step), return.
WorkerAfterAnimate(w) ==
  /\ limits.worker
  /\ workers[w].pc = "animated"
  /\ Delivered(StepComplete(World, workers[w].step, now))
  /\ workers' = [workers EXCEPT ![w].pc = "completed"]
  /\ UNCHANGED << now, manager, events >>
  /\ OnlyWorkers

\* concurrencyManager.run(fn) from the loop test on.  At most three promises
\* are in progress at a time, fewer than MAX_CONCURRENT_REQUESTS: the loop
\* is not entered, the request is sent at once.
WorkerRun(w) ==
  /\ ~Full(manager)
  /\ manager' = Entered(manager)

\* After a step is complete: the next step's emitStepChange and the call of
\* its work (startTime or fetchStart = Date.now(); concurrencyManager.run for
\* "fetching-transactions", workFn for the others); after "finalizing",
\* emitIndexingComplete and return.
WorkerAdvance(world, w) ==
  LET idx == IndexOf(workers[w].step)
  IN  IF idx = Len(STEP_ORDER)
        THEN /\ Delivered(IndexingComplete(world, Result(w)))
             /\ workers' = [workers EXCEPT ![w] = Settled(@, "resolved")]
             /\ UNCHANGED manager
        ELSE /\ Delivered(StepChange(world, STEP_ORDER[idx + 1], now))
             /\ workers' = [workers EXCEPT
                              ![w] = [@ EXCEPT !.step = STEP_ORDER[idx + 1], !.ticks = 0,
                                               !.pages = 0, !.since = now, !.elapsed = 0,
                                               !.got = "none",
                                               !.pc = IF idx + 1 = 2 THEN "fetching"
                                                      ELSE "working"]]
             /\ IF idx + 1 = 2 THEN WorkerRun(w) ELSE UNCHANGED manager

\* `await animateStep(...)` of indexAccount resumes.
WorkerProceed(w) ==
  /\ limits.worker
  /\ workers[w].pc = "completed"
  /\ WorkerAdvance(World, w)
  /\ UNCHANGED << now, events >>
  /\ OnlyWorkers

\* The outcomes of one page request, and when it settles: at once, or some
\* ticks before the estimated duration of the step has passed.
Arrivals == { 0 } \cup { Duration(STEP_ORDER[2]) - TickMs * k : k \in 0..MaxWorkerTicks }

\* The request of a worker settles (a task of its own), and the finally block
\* of run follows: active--, the first resolver of the queue is called.
WorkerSettle(w, outcome, arrival) ==
  /\ limits.worker
  /\ workers[w].pc = "fetching"
  /\ WorkerTask
  /\ outcome = "more" => workers[w].pages + 1 < MaxWorkerPages
  /\ now' = Clock(workers[w].since + arrival)
  /\ manager' = Left(manager, outcome)
  /\ workers' = [workers EXCEPT ![w].pc = "fetched", ![w].got = outcome]
  /\ UNCHANGED << runs, listeners, store, saved >>
  /\ OnlyWorkers

\* The end of the fetch step: emitStepProgress(step, 100), emitStepComplete(step),
\* and the next step at once.
WorkerFinishFetch(world, w) ==
  WorkerAdvance(StepComplete(StepProgress(world, workers[w].step, FullProgress, now),
                             workers[w].step, now), w)

\* After the fetch loop: fetchElapsed = Date.now() - fetchStart; the padding
\* interval if fetchElapsed < fetchDuration, the end of the step otherwise.
WorkerAfterLoop(world, w) ==
  IF now - workers[w].since < Duration(workers[w].step)
    THEN /\ Delivered(world)
         /\ workers' = [workers EXCEPT ![w].pc = "padding", ![w].ticks = 0, ![w].pages = 0,
                                       ![w].got = "none",
                                       ![w].elapsed = now - workers[w].since]
         /\ UNCHANGED manager
    ELSE WorkerFinishFetch(world, w)

\* Math.min(95, Math.max(pageCount * 15, timeProgress))
PageProgress(pageCount, timeProgress) ==
  Least(LastTickProgress, Greatest(pageCount * 15, timeProgress))

\* A page with records: pageCount++, emitStepProgress; then the next
\* request, or the end of the loop.
WorkerPage(world, w, more) ==
  IF more
    THEN /\ Delivered(world)
         /\ workers' = [workers EXCEPT ![w].pages = @ + 1, ![w].pc = "fetching",
                                       ![w].got = "none"]
         /\ WorkerRun(w)
    ELSE WorkerAfterLoop(world, w)

\* `await concurrencyManager.run(...)` of indexAccount resumes: the request
\* rejected; the page is empty; the page has records and another follows;
\* the page has records and is the last (cutoff reached or no cursor).
WorkerFetchPage(w, message) ==
  /\ limits.worker
  /\ workers[w].pc = "fetched"
  /\ CASE workers[w].got = "rejected" -> WorkerCatch(w, message) /\ UNCHANGED manager
       [] workers[w].got = "empty" -> WorkerAfterLoop(World, w)
       [] workers[w].got \in {"more", "last"} ->
            WorkerPage(StepProgress(World, workers[w].step,
                                    PageProgress(workers[w].pages + 1,
                                                 TimeShare(now - workers[w].since,
                                                           Duration(workers[w].step))),
                                    now),
                       w, workers[w].got = "more")
  /\ UNCHANGED << now, events >>
  /\ OnlyWorkers

\* A callback of the padding interval, `spent` ms after the interval was set.
PadAt(w, spent, fetchElapsed, fetchDuration) ==
  /\ now' = Clock(workers[w].since + fetchElapsed + spent)
  /\ Delivered(StepProgress(World, workers[w].step,
                            Least(LastTickProgress,
                                  TimeShare(fetchElapsed + spent, fetchDuration)),
                            Clock(workers[w].since + fetchElapsed + spent)))
  /\ workers' = [workers EXCEPT
                   ![w].ticks = IF spent >= fetchDuration - fetchElapsed THEN 0 ELSE @ + 1,
                   ![w].pc = IF spent >= fetchDuration - fetchElapsed THEN "padded"
                             ELSE "padding"]

\* A tick of the padding interval of the fetch step: spent += tickMs,
\* emitStepProgress; when spent >= remaining the promise is resolved.
WorkerPadTick(w) ==
  /\ limits.worker
  /\ workers[w].pc = "padding"
  /\ WorkerTask
  /\ \/ workers[w].ticks + 1 < MaxWorkerTicks
     \/ TickMs * (workers[w].ticks + 1) >= Duration(workers[w].step) - workers[w].elapsed
  /\ PadAt(w, TickMs * (workers[w].ticks + 1), workers[w].elapsed, Duration(workers[w].step))
  /\ UNCHANGED manager
  /\ OnlyWorkers

\* The padding promise resolved.
WorkerAfterPadding(w) ==
  /\ limits.worker
  /\ workers[w].pc = "padded"
  /\ WorkerFinishFetch(World, w)
  /\ UNCHANGED << now, events >>
  /\ OnlyWorkers

\* launchIndexAccount's then: partialResults["finalizing"] = result.
WorkerThen(w) ==
  /\ w \in Runs
  /\ workers[w].pc = "resolved"
  /\ LET own == workers[w].own
     IN  Assign(own, StateOf(own), [PartialResultsOf(own) EXCEPT !["finalizing"] = Result(w)])
  /\ workers' = [workers EXCEPT ![w].pc = "done"]
  /\ UNCHANGED << heap, runs, listeners, snap, calls, events, faulty, limits, applied, ui, service, pool >>

\* ------------------------------------------------- indexAccountMultiTimeframe
\* emitter.on("stepChange", stepChangeHandler) and emitter.on("stepProgress",
\* stepProgressHandler) of indexOneTimeframe.
TimeframeListeners(w) ==
  { [event |-> "stepChange", handler |-> "stepChangeHandler", owner |-> w],
    [event |-> "stepProgress", handler |-> "stepProgressHandler", owner |-> w] }

\* indexOneTimeframe of the first n timeframes, to the first await of each:
\* the two listeners are registered and indexAccount is called.
RECURSIVE LaunchTimeframes(_, _, _)
LaunchTimeframes(w, n, served) ==
  IF n = 0 THEN w
  ELSE LaunchEmits([LaunchTimeframes(w, n - 1, served)
                      EXCEPT !.listeners = @ \cup TimeframeListeners(TimeframePromise(n))],
                   served[n])

\* indexOneTimeframe at `await indexAccount(...)`, indexAccount at its first
\* await or rejected before its try block.
TimeframeWorker(served) ==
  IF served THEN LaunchedWorker ELSE [RejectedWorker EXCEPT !.pc = "rejected"]

\* indexAccountMultiTimeframe(accountId, network, onProgress) to its await:
\* Promise.allSettled(timeframes.map((tf) => indexOneTimeframe(tf))), the
\* three indexAccount promises on the shared emitter.  The UI calls it when
\* it has connected the store and called startIndexing(), and the promises
\* of the call before have settled.
IndexAccountMultiTimeframe(served) ==
  /\ limits.multi
  /\ isConnected /\ store.isLoading
  /\ events < limits.events
  /\ TasksMayRun
  /\ WorkersSettled
  /\ calls' = calls + 1
  /\ events' = events + 1
  /\ workers' = [w \in Promises |->
                   IF w \in TimeframePromises
                     THEN TimeframeWorker(served[w - Max(Runs)]) ELSE workers[w]]
  /\ Delivered(LaunchTimeframes(World, Len(TIMEFRAMES), served))
  /\ UNCHANGED << state, heap, partialResults, snap, faulty, limits, retired,
                  applied, now, service, pool >>

\* `await indexAccount(...)` of indexOneTimeframe resumes, in the try block
\* or in the catch block: both listeners are removed, and the promise of the
\* timeframe settles as indexAccount did.
IndexOneTimeframe(w) ==
  /\ w \in TimeframePromises
  /\ workers[w].pc \in {"resolved", "rejected"}
  /\ listeners' = listeners \ TimeframeListeners(w)
  /\ workers' = [workers EXCEPT ![w].pc = IF @ = "resolved" THEN "tf-success"
                                          ELSE "tf-failed"]
  /\ UNCHANGED << state, heap, partialResults, runs, snap, calls, events, faulty, limits,
                  retired, applied, ui, service, pool >>

\* Promise.allSettled resolved: the results are assembled and returned.
IndexAccountMultiTimeframeReturn ==
  /\ AllSettled
  /\ workers' = [w \in Promises |->
                   IF w \in TimeframePromises
                     THEN [workers[w] EXCEPT !.pc = IF @ = "tf-success" THEN "done"
                                                    ELSE "failed"]
                     ELSE workers[w]]
  /\ UNCHANGED << state, heap, partialResults, runs, listeners, snap, calls, events,
                  faulty, limits, retired, applied, ui, service, pool >>

\* ------------------------------------------------------------------- store
\* In the display regime the UI connects the store and calls startIndexing()
\* before the first call, and leaves the connection alone afterwards.
MayConnect == limits.store /\ (limits.clock => calls = 0)

\* connectToStore(): registers the store listeners unless connected.
ConnectToStore ==
  /\ MayConnect
  /\ ~isConnected
  /\ listeners' = listeners \cup StoreListeners
  /\ UNCHANGED << state, heap, partialResults, runs, workers, snap,
                  calls, events, faulty, limits, retired, applied, ui, service, pool >>

\* disconnectFromStore() and reset(): this.removeAllListeners().
DisconnectFromStore ==
  /\ MayConnect
  /\ listeners' = {}
  /\ UNCHANGED << state, heap, partialResults, runs, workers, snap,
                  calls, events, faulty, limits, retired, applied, ui, service, pool >>

\* startIndexing(), by the UI before it calls the service.
BeginDisplay ==
  /\ limits.store
  /\ calls = 0
  /\ ~store.isLoading
  /\ StartIndexing

\* ---------------------------------------------------------------- snapshots
\* getState(): { ...this.state }
GetState ==
  /\ limits.snaps
  /\ snap = Null
  /\ snap' = Snapshot(state)
  /\ UNCHANGED << state, heap, partialResults, runs, workers, listeners,
                  calls, events, faulty, limits, retired, applied, ui, service, pool >>

Next ==
  \/ \E r \in Runs : Start(r)
  \/ \E r \in Runs : Restart(r)
  \/ \E r \in Runs : RetryFailedStep(r)
  \/ \E r \in Runs : Resume(r)
  \/ \E r \in Runs : HookRestart(r)
  \/ \E r \in Runs : RunStepCompleted(r)
  \/ \E r \in Runs : RunStepRejected(r)
  \/ \E r \in Runs : Wake(r)
  \/ \E r \in Runs : RunContinue(r)
  \/ \E r \in Runs : Timeout(r)
  \/ \E s \in Steps : EmitStepCompleteEvent(s)
  \/ \E s \in Steps, m \in ErrorMessages : EmitStepErrorEvent(s, m)
  \/ EmitIndexingCancelled
  \/ \E w \in Promises, ok \in BOOLEAN, m \in ErrorMessages : WorkerWorkFn(w, ok, m)
  \/ \E w \in Promises, late \in BOOLEAN : WorkerAnimateTick(w, late)
  \/ \E w \in Promises : WorkerAfterAnimate(w)
  \/ \E w \in Promises : WorkerProceed(w)
  \/ \E w \in Promises, outcome \in PageOutcomes, arrival \in Arrivals :
       WorkerSettle(w, outcome, arrival)
  \/ \E w \in Promises, m \in ErrorMessages : WorkerFetchPage(w, m)
  \/ \E w \in Promises : WorkerPadTick(w)
  \/ \E w \in Promises : WorkerAfterPadding(w)
  \/ \E w \in Runs : WorkerThen(w)
  \/ \E served \in [1..Len(TIMEFRAMES) -> BOOLEAN] : IndexAccountMultiTimeframe(served)
  \/ \E w \in TimeframePromises : IndexOneTimeframe(w)
  \/ IndexAccountMultiTimeframeReturn
  \/ GetState
  \/ ConnectToStore
  \/ DisconnectFromStore
  \/ BeginDisplay

Spec == Init /\ [][Next]_vars

\* =============================================================== properties
\* The steps of worker w in which it calls emitStepComplete for its step, and
\* those in which its catch block calls emitStepError.
WorkerEmitsStepComplete(w) ==
  \/ WorkerAfterAnimate(w)
  \/ WorkerAfterPadding(w)
  \/ /\ workers[w].got \in {"empty", "last"}
     /\ now - workers[w].since >= Duration(workers[w].step)
     /\ \E m \in ErrorMessages : WorkerFetchPage(w, m)

WorkerEmitsStepError(w, message) ==
  \/ WorkerWorkFn(w, FALSE, message)
  \/ workers[w].got = "rejected" /\ WorkerFetchPage(w, message)

\* The status a reader of this.state sees for a step.
StatusOf(h, st, step) == h[st.stepStates][step].status

\* this.state of the instance run r belongs to, before a step and after it.
\* (The hook's restart leaves the runs in flight with the instance it replaces.)
Mine(r) == StateOf(runs[r].own)

MineAfter(r) ==
  IF runs[r].own /\ (InFlight(r) => runs'[r].own) THEN state' ELSE retired'.state

\* this.state after a step, of the instance the callers hold (own) or of the
\* replaced one.
StateAfter(own) == IF own THEN state' ELSE retired'.state

\* The replaced instance is followed over a step when it is the same
\* instance before and after; the callers' instance always is.
Followed(own) ==
  \/ own
  \/ /\ retired.kind = "instance"
     /\ retired'.kind = "instance"
     /\ retired'.state.sessionId = retired.state.sessionId

\* The instance keeps its session over the step.
SameSession(own) ==
  Followed(own) /\ StateAfter(own).sessionId = StateOf(own).sessionId

\* Run r has taken a step (being left with a replaced instance is none).
Acted(r) == [runs'[r] EXCEPT !.own = TRUE] # [runs[r] EXCEPT !.own = TRUE]

\* The runs in flight of that instance.
RunsOf(own) == { r \in Runs : InFlight(r) /\ runs[r].own = own }

\* C1: steps execute strictly in registry order: for every run, no step
\* becomes running until its predecessor in the registry has completed or
\* been skipped.
C1_RegistryOrder ==
  [][\A i \in 2..Len(STEP_ORDER) :
       ( /\ StatusOf(heap', state', STEP_ORDER[i]) = "running"
         /\ ~( /\ state'.sessionId = state.sessionId
               /\ StatusOf(heap, state, STEP_ORDER[i]) = "running" ) )
       => StatusOf(heap', state', STEP_ORDER[i - 1]) \in {"completed", "skipped"}]_vars

\* C2: when the worker emits step-complete for the step a run is awaiting the
\* wait resolves, and when it emits step-error for that step the wait rejects
\* with the emitted message.
C2_WorkerEventsSettleWait ==
  [][\A w \in Runs, r \in Runs :
       /\ ( /\ WorkerEmitsStepComplete(w)
            /\ runs[r].pc = "awaiting"
            /\ runs[r].step = workers[w].step )
          => runs'[r].pc = "resolved"
       /\ \A m \in ErrorMessages :
            ( /\ WorkerEmitsStepError(w, m)
              /\ runs[r].pc = "awaiting"
              /\ runs[r].step = workers[w].step )
            => (runs'[r].pc = "rejected" /\ runs'[r].err.message = m)]_vars

\* C3: a start (or restart) whose steps all completed returns the result its
\* worker resolved with; it returns null only if the run halted.
C3_StartReturnsWorkerResult ==
  [][\A r \in Runs :
       ( /\ RunContinue(r)
         /\ runs[r].phase = "runFrom"
         /\ runs'[r].pc = "done" )
       => /\ (runs[r].ok /\ workers[r].pc \in {"resolved", "done"})
               => runs'[r].ret = Result(r)
          /\ runs'[r].ret = Null => ~runs[r].ok]_vars

\* The error awaitStep rejects with when its 30 s timer fires.
TimedOut(r) == runs[r].err = MkError("Error", TimeoutMessage(runs[r].step))

\* C4: when every attempt of a step fails with a retryable error the step is
\* attempted exactly MAX_RETRIES + 1 = 4 times: failures of attempts 1..3 are
\* retried, the failure of attempt 4 halts the run with failedStep set to the
\* step and the call returns null; there is never a fifth attempt.
C4_FourAttemptsThenHalt ==
  /\ [](\A r \in Runs : runs[r].attempt <= 4)
  /\ [][\A r \in Runs :
          ( /\ runs[r].pc = "rejected"
            /\ isRetryable(classifyError(runs[r].err))
            /\ runs'[r].pc # "rejected" )
          => IF runs[r].attempt < 4
               THEN /\ runs'[r].pc = "sleeping"
                    /\ MineAfter(r).failedStep = Mine(r).failedStep
               ELSE /\ runs'[r].pc = "returned"
                    /\ ~runs'[r].ok
                    /\ MineAfter(r).failedStep = runs[r].step]_vars
  /\ [][\A r \in Runs :
          (runs[r].pc = "returned" /\ ~runs[r].ok /\ Acted(r))
          => (runs'[r].pc = "done" /\ runs'[r].ret = Null)]_vars

C4_Witness ==
  \E r \in Runs :
    /\ runs[r].pc = "returned"
    /\ ~runs[r].ok
    /\ runs[r].attempt = 4
    /\ state.failedStep = runs[r].step
    /\ state.totalRetries >= 3

\* C6: every failed attempt that is retried adds exactly one to totalRetries
\* and leads to the next attempt of the same step, so a success on attempt
\* k + 1 follows exactly k increments; the successful attempt leaves the step
\* completed and in completedSteps, and the run goes on to the next step of
\* the registry with a first attempt.
C6_RetriesThenSuccess ==
  /\ [][\A own \in BOOLEAN :
          SameSession(own)
          => StateAfter(own).totalRetries = StateOf(own).totalRetries +
               Cardinality({r \in RunsOf(own) :
                              runs[r].pc = "rejected" /\ runs'[r].pc = "sleeping"})]_vars
  /\ [][\A r \in Runs :
          (runs[r].pc = "sleeping" /\ runs'[r].pc # "sleeping")
          => /\ runs'[r].attempt = runs[r].attempt + 1
             /\ runs'[r].step = runs[r].step]_vars
  /\ [][\A r \in Runs :
          (runs[r].pc = "resolved" /\ runs'[r].pc # "resolved")
          => /\ runs'[r].pc = "returned" /\ runs'[r].ok
             /\ runs'[r].attempt = runs[r].attempt
             /\ StatusOf(heap', MineAfter(r), runs[r].step) = "completed"
             /\ InSeq(runs[r].step, MineAfter(r).completedSteps)]_vars
  /\ [][\A r \in Runs :
          ( /\ runs[r].pc = "returned" /\ runs[r].ok
            /\ Acted(r)
            /\ IndexOf(runs[r].step) < Len(STEP_ORDER) )
          => /\ runs'[r].step = STEP_ORDER[IndexOf(runs[r].step) + 1]
             /\ runs'[r].attempt = 1]_vars

C6_Witness ==
  \E r \in Runs :
    /\ runs[r].pc = "returned"
    /\ runs[r].ok
    /\ runs[r].attempt = 4
    /\ state.totalRetries = 3
    /\ StatusOf(heap, state, runs[r].step) = "completed"

\* C7: the timeout of a wait fires where the wait is still pending 30 s after
\* it began, no sooner, and rejects it; that rejection is handled as any
\* failed attempt: attempts 1..3 are retried (one more retry counted, the
\* step running again), attempt 4 halts the run with the step failed.
C7_TimeoutIsFailedAttempt ==
  /\ [][\A r \in Runs :
          Timeout(r) => /\ runs[r].pc = "awaiting"
                        /\ runs[r].since <= now
                        /\ now' >= runs[r].since + 30000
                        /\ runs'[r].pc = "rejected"
                        /\ runs'[r].attempt = runs[r].attempt
                        /\ runs'[r].step = runs[r].step]_vars
  /\ [][\A r \in Runs :
          (runs[r].pc = "rejected" /\ TimedOut(r) /\ runs'[r].pc # "rejected")
          => IF runs[r].attempt <= MAX_RETRIES
               THEN /\ runs'[r].pc = "sleeping"
                    /\ MineAfter(r).totalRetries = Mine(r).totalRetries + 1
                    /\ StatusOf(heap', MineAfter(r), runs[r].step) = "running"
               ELSE /\ runs'[r].pc = "returned" /\ ~runs'[r].ok
                    /\ MineAfter(r).failedStep = runs[r].step
                    /\ StatusOf(heap', MineAfter(r), runs[r].step) = "failed"]_vars

C7_Witness ==
  \E r \in Runs :
    /\ runs[r].pc = "returned"
    /\ ~runs[r].ok
    /\ runs[r].attempt = 4
    /\ state.failedStep = runs[r].step
    /\ heap[state.stepStates][runs[r].step].error.message = TimeoutMessage(runs[r].step)
    /\ now >= Epoch + 4 * 30000 + 1000 + 2000 + 4000

IsPrefix(s, t) == Len(s) <= Len(t) /\ SubSeq(t, 1, Len(s)) = s

Recovering(run) == run.method \in {"retryFailedStep", "resume"}

\* C8: retryFailedStep and resume leave completedSteps as it is and begin at
\* the failed step; within a session completedSteps only grows at its end; a
\* recovery never starts the wait of a step that is in completedSteps, and it
\* continues through the steps after the failed one.
C8_RecoveryKeepsCompleted ==
  /\ [][\A r \in Runs :
          (RetryFailedStep(r) \/ Resume(r))
          => /\ state'.completedSteps = state.completedSteps
             /\ state.failedStep # NULL
                  => (runs'[r].step = state.failedStep /\ runs'[r].attempt = 1)]_vars
  /\ [][\A own \in BOOLEAN :
          SameSession(own)
          => IsPrefix(StateOf(own).completedSteps, StateAfter(own).completedSteps)]_vars
  /\ [][\A r \in Runs :
          ( /\ Recovering(runs'[r])
            /\ runs'[r].pc = "awaiting"
            /\ runs[r].pc # "awaiting" )
          => ~InSeq(runs'[r].step, state'.completedSteps)]_vars
  /\ [][\A r \in Runs :
          ( /\ Recovering(runs[r])
            /\ runs[r].pc = "returned" /\ runs[r].ok
            /\ Acted(r)
            /\ IndexOf(runs[r].step) < Len(STEP_ORDER) )
          => runs'[r].step = STEP_ORDER[IndexOf(runs[r].step) + 1]]_vars

C8_Witness ==
  \E r \in Runs :
    /\ Recovering(runs[r])
    /\ runs[r].pc = "returned"
    /\ runs[r].ok
    /\ runs[r].step = "finalizing"
    /\ Len(state.completedSteps) = Len(STEP_ORDER)

\* C9: resume proceeds only when failedStep is set and completedSteps is not
\* empty; otherwise it returns null having launched no worker, run no step
\* and changed nothing of the state.
C9_ResumeGuard ==
  [][\A r \in Runs :
       Resume(r)
       => IF state.failedStep # NULL /\ Len(state.completedSteps) > 0
            THEN workers'[r] \in {LaunchedWorker, RejectedWorker}
            ELSE /\ runs'[r].pc = "done" /\ runs'[r].ret = Null
                 /\ UNCHANGED << state, heap, partialResults, workers, listeners >>]_vars

\* C10: what a holder reads through a snapshot returned by getState never
\* changes afterwards, the stepStates entries included.
C10_SnapshotsImmutable ==
  [][(snap.kind = "snapshot" /\ snap' = snap)
       => View(snap', heap') = View(snap, heap)]_vars

\* The steps whose status is running.
RunningSteps == { s \in Steps : StatusOf(heap, state, s) = "running" }

\* C11: in every reachable RecoveryState at most one step has status running.
C11_AtMostOneRunning == Cardinality(RunningSteps) <= 1

NoDuplicates(seq) == \A i, j \in 1..Len(seq) : seq[i] = seq[j] => i = j

InRegistryOrder(seq) ==
  \A i, j \in 1..Len(seq) : i < j => IndexOf(seq[i]) < IndexOf(seq[j])

\* C12: completedSteps has no duplicates and is in registry order, and
\* between resets it changes only by appending one step at its end.
C12_CompletedStepsAppendOnly ==
  /\ [](NoDuplicates(state.completedSteps) /\ InRegistryOrder(state.completedSteps))
  /\ [][(state'.sessionId = state.sessionId /\ state'.completedSteps # state.completedSteps)
          => \E s \in Steps : state'.completedSteps = Append(state.completedSteps, s)]_vars

\* Run r is executing steps: inside runSingleStep, or between two steps.
Executing(r) ==
  \/ runs[r].pc \in {"awaiting", "resolved", "rejected", "sleeping"}
  \/ runs[r].pc = "returned" /\ runs[r].ok

\* C13: failedStep is non-null exactly while the pipeline is halted awaiting
\* a recovery decision: it is null while a run executes steps (backoff sleeps
\* included) and after full completion, it becomes non-null only when a step
\* exhausts its retries, and it stays so until start, retryFailedStep, resume
\* or restart is invoked.
C13_FailedStepIffHalted ==
  /\ [](\A r \in Runs : Executing(r) => Mine(r).failedStep = NULL)
  /\ [][(state.failedStep = NULL /\ state'.failedStep # NULL)
          => \E r \in Runs : /\ RunStepRejected(r)
                             /\ runs[r].attempt > MAX_RETRIES
                             /\ state'.failedStep = runs[r].step]_vars
  /\ [][(state.failedStep # NULL /\ state'.failedStep # state.failedStep)
          => \E r \in Runs : \/ Start(r) \/ Restart(r) \/ HookRestart(r)
                             \/ RetryFailedStep(r) \/ Resume(r)]_vars
  /\ [][\A r \in Runs :
          (RunContinue(r) /\ runs[r].ok /\ runs'[r].pc = "done")
          => state'.failedStep = NULL]_vars

\* The late regime's first state is one the serial callers reach.
LateInitReached ==
  /\ state = [makeInitialRecoveryState(2) EXCEPT !.completedSteps = << STEP_ORDER[1] >>,
                                                  !.totalRetries = MAX_RETRIES]
  /\ heap[2][LateStep] = Merge(InitialStepStates[LateStep],
                               [status |-> "running", error |-> LateError])
  /\ heap[2][STEP_ORDER[1]].status = "completed"
  /\ partialResults = [NoPartialResults EXCEPT ![STEP_ORDER[1]] = True]
  /\ runs[1] = LateRun
  /\ workers[1] = LateWorker
  /\ now = LateClock
  /\ listeners = {}
  /\ calls = 1
  /\ limits = Serial

\* The registry steps before step, in registry order.
StepsBefore(step) == SubSeq(STEP_ORDER, 1, IndexOf(step) - 1)

\* C14: whenever the run is halted with failedStep = S, completedSteps is
\* exactly the registry steps preceding S; after a failure of the first
\* registry step completedSteps is empty, so canResume is false.
C14_HaltedAfterPredecessors ==
  state.failedStep # NULL => state.completedSteps = StepsBefore(state.failedStep)

\* C15: at the moment failedStep is set, isPartial is true if and only if
\* completedSteps is non-empty (false when the first registry step fails
\* with nothing completed).
C15_PartialIffCompleted ==
  [][\A own \in BOOLEAN :
       ( /\ Followed(own)
         /\ StateAfter(own).failedStep # NULL
         /\ StateAfter(own).failedStep # StateOf(own).failedStep )
       => (StateAfter(own).isPartial <=> Len(StateAfter(own).completedSteps) > 0)]_vars

C15_Witness ==
  \E r \in Runs :
    /\ runs[r].pc = "returned" /\ ~runs[r].ok
    /\ state.failedStep = runs[r].step
    /\ Len(state.completedSteps) > 0
    /\ state.isPartial

\* C16: isPartial is false in the fresh state of start / restart and becomes
\* true only in the step that sets failedStep: until a step of the session
\* exhausts its retries it stays false, whatever completes or is retried.
C16_PartialOnlyAfterHalt ==
  /\ [][\A r \in Runs : (Start(r) \/ Restart(r) \/ HookRestart(r)) => ~state'.isPartial]_vars
  /\ [][\A own \in BOOLEAN :
          (Followed(own) /\ ~StateOf(own).isPartial /\ StateAfter(own).isPartial)
          => (StateOf(own).failedStep = NULL /\ StateAfter(own).failedStep # NULL)]_vars

C16_Witness ==
  /\ ~state.isPartial
  /\ state.failedStep = NULL
  /\ Len(state.completedSteps) >= 2
  /\ state.totalRetries >= 1

\* The pendingAction a call of the method marks.
ActionOf(method) ==
  CASE method = "retryFailedStep" -> "retry"
    [] method = "resume" -> "resume"
    [] method = "restart" -> "restart"
    [] OTHER -> NULL

\* C17: while a run started by retryFailedStep, resume or restart executes,
\* pendingAction is retry, resume or restart respectively; while a run of
\* start executes and whenever no run is in flight (fresh, fully completed,
\* halted again) pendingAction is null.
C17_PendingActionMarksRecovery ==
  /\ \A r \in Runs : Executing(r) => Mine(r).pendingAction = ActionOf(runs[r].method)
  /\ (\A r \in Runs : ~InFlight(r)) => state.pendingAction = NULL

\* C18: sessionId changes only in start and restart (the hook's restart
\* starts a new instance): retryFailedStep, resume, step transitions and
\* automatic retries leave it as it is, in the replaced instance too.
C18_SessionIdKept ==
  /\ [][state'.sessionId # state.sessionId
          => \E r \in Runs : Start(r) \/ Restart(r) \/ HookRestart(r)]_vars
  /\ [][(retired.kind = "instance" /\ retired'.state.sessionId # retired.state.sessionId)
          => \E r \in Runs : HookRestart(r)]_vars

C18_Witness ==
  \E r \in Runs :
    /\ Recovering(runs[r])
    /\ runs[r].pc = "sleeping"
    /\ Len(state.completedSteps) >= 1
    /\ state.totalRetries > MAX_RETRIES

\* C19: start and restart, from any state, leave a fresh RecoveryState in
\* which only the first step has begun: a sessionId different from the prior
\* one, completedSteps empty, failedStep null, isPartial false, totalRetries
\* 0, and every step as initially but for the first, now running.
C19_FreshStateOnStart ==
  [][\A r \in Runs :
       (Start(r) \/ Restart(r) \/ HookRestart(r))
       => /\ state'.sessionId # state.sessionId
          /\ state'.completedSteps = << >>
          /\ state'.failedStep = NULL
          /\ ~state'.isPartial
          /\ state'.totalRetries = 0
          /\ heap'[state'.stepStates] =
               [InitialStepStates EXCEPT ![STEP_ORDER[1]].status = "running"]]_vars

C19_Witness ==
  \E r \in Runs :
    /\ r > 1
    /\ runs[r].method = "restart"
    /\ runs[r].pc = "awaiting" /\ runs[r].attempt = 1
    /\ runs[1] = Returned(Null)
    /\ state.completedSteps = << >> /\ state.totalRetries = 0

\* Run r enters runSingleStep(step): a call, the next step of a loop, or the
\* next attempt after a backoff.
Enters(r, step) ==
  \/ /\ runs[r].pc = "sleeping" /\ runs[r].step = step
     /\ Wake(r)
  \/ /\ runs[r].pc = "returned" /\ runs[r].ok
     /\ IndexOf(runs[r].step) < Len(STEP_ORDER)
     /\ step = STEP_ORDER[IndexOf(runs[r].step) + 1]
     /\ RunContinue(r)
  \/ /\ runs[r].pc = "idle" /\ state.failedStep = step
     /\ (RetryFailedStep(r) \/ Resume(r))

\* C20: runSingleStep invoked for a step already in completedSteps returns
\* true at once with the step marked skipped: no listener is registered on
\* the emitter, no retry is counted and completedSteps gets no second copy.
C20_CompletedStepSkipped ==
  [][\A r \in Runs, step \in Steps :
       (InSeq(step, Mine(r).completedSteps) /\ Enters(r, step))
       => /\ runs'[r].pc = "returned" /\ runs'[r].ok
          /\ StatusOf(heap', MineAfter(r), step) = "skipped"
          /\ MineAfter(r).completedSteps = Mine(r).completedSteps
          /\ MineAfter(r).totalRetries = Mine(r).totalRetries
          /\ listeners' = listeners]_vars

C20_Witness ==
  \E r \in Runs :
    /\ runs[r].pc = "returned" /\ runs[r].ok
    /\ StatusOf(heap, state, runs[r].step) = "skipped"
    /\ InSeq(runs[r].step, state.completedSteps)

\* C21: totalRetries changes only where an automatic retry is scheduled, by
\* exactly one, and where start or restart create a fresh state, to 0; within
\* a session (across retryFailedStep and resume too) it never decreases.
C21_TotalRetriesCountsRetries ==
  /\ [][\A own \in BOOLEAN :
          (Followed(own) /\ StateAfter(own).totalRetries # StateOf(own).totalRetries)
          => \/ \E r \in RunsOf(own) :
                   /\ RunStepRejected(r)
                   /\ runs'[r].pc = "sleeping"
                   /\ StateAfter(own).totalRetries = StateOf(own).totalRetries + 1
             \/ \E r \in Runs : /\ own
                                /\ Start(r) \/ Restart(r) \/ HookRestart(r)
                                /\ state'.totalRetries = 0]_vars
  /\ [][\A r \in Runs : (RunStepRejected(r) /\ runs'[r].pc = "sleeping")
                          => MineAfter(r).totalRetries = Mine(r).totalRetries + 1]_vars
  /\ [][\A own \in BOOLEAN :
          SameSession(own) => StateAfter(own).totalRetries >= StateOf(own).totalRetries]_vars

C21_Witness ==
  \E r \in Runs :
    /\ runs[r].method = "retryFailedStep"
    /\ runs[r].pc = "sleeping" /\ runs[r].attempt = 1
    /\ state.totalRetries = MAX_RETRIES + 1

\* The stepStates entry a reader of this.state sees for a step.
EntryOf(h, st, step) == h[st.stepStates][step]

\* C22: start, retryFailedStep, resume and restart never reject because a
\* step failed or timed out: the failure is caught, classified and recorded
\* in the state (the run then retries or halts), a halted run makes its call
\* return null, and no call ever settles with anything but a returned value.
C22_FailuresReturnNull ==
  /\ [][\A r \in Runs :
          RunStepRejected(r)
          => /\ EntryOf(heap', MineAfter(r), runs[r].step).error.kind = "error"
             /\ EntryOf(heap', MineAfter(r), runs[r].step).error.type = classifyError(runs[r].err)
             /\ EntryOf(heap', MineAfter(r), runs[r].step).error.message = runs[r].err.message
             /\ runs'[r].pc \in {"sleeping", "returned"}]_vars
  /\ [][\A r \in Runs :
          (RunContinue(r) /\ ~runs[r].ok) => runs'[r] = Returned(Null)]_vars
  /\ [](\A r \in Runs :
          runs[r].pc = "done" => runs[r].ret.kind \in {"null", "true", "result"})

C22_Witness ==
  \E r \in Runs :
    /\ runs[r] = Returned(Null)
    /\ state.failedStep # NULL
    /\ \A q \in Runs : ~InFlight(q)
    /\ EntryOf(heap, state, state.failedStep).error.kind = "error"
    /\ EntryOf(heap, state, state.failedStep).error.message = TimeoutMessage(state.failedStep)

\* C23: retryFailedStep called when failedStep is null returns null and
\* changes nothing: not the state, its step entries or the partial results
\* (every notification of subscribers in the method follows a write, so none
\* is made), and no worker is launched.  While a run of retryFailedStep is
\* the run in flight failedStep is null, so a second retryFailedStep issued
\* then is such a call.
C23_RetryWithoutFailureIsNoOp ==
  /\ [][\A r \in Runs :
          (RetryFailedStep(r) /\ state.failedStep = NULL)
          => /\ runs'[r] = Returned(Null)
             /\ UNCHANGED << state, heap, partialResults, workers, listeners >>]_vars
  /\ [](\A q \in Runs :
          ( /\ runs[q].method = "retryFailedStep"
            /\ Executing(q)
            /\ \A p \in Runs \ {q} : ~InFlight(p) )
          => state.failedStep = NULL)

\* A second retryFailedStep has returned null while the first still waits.
C23_Witness ==
  \E q \in Runs, r \in Runs :
    /\ q < r
    /\ runs[q].method = "retryFailedStep" /\ runs[q].pc = "awaiting"
    /\ runs[r] = Returned(Null)
    /\ workers[r] = NoWorker
    /\ state.failedStep = NULL

\* acceptPartialResults(): partialResults["finalizing"] ?? null; it writes
\* nothing.
acceptPartialResults == Coalesce(partialResults["finalizing"])

\* C24: acceptPartialResults returns the result a worker resolved with if
\* there is one and null otherwise; after a halt at a step before finalizing
\* it returns null.
C24_AcceptReturnsResultOrNull ==
  /\ \/ acceptPartialResults = Null
     \/ \E w \in Runs : acceptPartialResults = Result(w)
  /\ (state.failedStep # NULL /\ state.failedStep # "finalizing")
       => acceptPartialResults = Null

\* C25: whenever failedStep = S, the entry of S has status failed and an
\* error that names S, with its type, its message, retryable =
\* isRetryable(type) and the 1-based number of the attempt that failed.
C25_HaltCarriesFailure ==
  state.failedStep # NULL
  => LET entry == EntryOf(heap, state, state.failedStep)
     IN  /\ entry.status = "failed"
         /\ entry.error.kind = "error"
         /\ entry.error.step = state.failedStep
         /\ entry.error.retryable = isRetryable(entry.error.type)
         /\ entry.error.attempt \in 1..(MAX_RETRIES + 1)

\* Some holder of the emitter emits an event that names step: stepComplete,
\* stepError, or the worker's step-complete / step-error.
EmitsFor(step) ==
  \/ EmitStepCompleteEvent(step)
  \/ \E m \in ErrorMessages : EmitStepErrorEvent(step, m)
  \/ \E w \in Promises : workers[w].step = step /\ WorkerEmitsStepComplete(w)
  \/ \E w \in Promises, m \in ErrorMessages : workers[w].step = step /\ WorkerEmitsStepError(w, m)

\* Run r waits on as it did: same frame, same listeners on the emitter.
WaitsOn(r) ==
  /\ runs'[r] = runs[r]
  /\ \A l \in ControllerListeners(r) : l \in listeners' <=> l \in listeners

\* C26: while a run awaits step S, an event that names a different step
\* neither completes nor fails S, whoever emitted it: a step in which the
\* run's wait or its listeners change is not the emission of an event that
\* names another step.
C26_StepIdentityMatching ==
  [][\A r \in Runs, step \in Steps :
       ( /\ runs[r].pc = "awaiting"
         /\ runs[r].step # step
         /\ ~WaitsOn(r) )
       => ~EmitsFor(step)]_vars

\* An event has settled the wait of one run while another run, waiting for a
\* different step, still waits.
C26_Witness ==
  \E r \in Runs, q \in Runs :
    /\ runs[r].pc = "resolved"
    /\ runs[q].pc = "awaiting"
    /\ runs[q].step # runs[r].step
    /\ ControllerListeners(q) \subseteq listeners

\* The listeners the controller's runs have on the emitter.
ControllerRegistered == { l \in listeners : l.owner \in Runs }

\* C27: a wait settles once (from awaiting, by stepComplete, stepError or
\* the timeout), and once it has settled none of its listeners is registered:
\* only runs that wait have listeners on the emitter, two each at most,
\* whatever the number of retries.
C27_SettledWaitLeavesNoListener ==
  /\ [](\A l \in ControllerRegistered : runs[l.owner].pc = "awaiting")
  /\ [](Cardinality(ControllerRegistered)
          <= 2 * Cardinality({ r \in Runs : runs[r].pc = "awaiting" }))
  /\ [][\A r \in Runs :
          (runs'[r].pc \in {"resolved", "rejected"} /\ runs'[r].pc # runs[r].pc)
          => /\ runs[r].pc = "awaiting"
             /\ \A l \in ControllerListeners(r) : l \notin listeners']_vars

C27_Witness ==
  \E r \in Runs :
    /\ runs[r].pc = "awaiting"
    /\ runs[r].attempt = MAX_RETRIES + 1
    /\ listeners = ControllerListeners(r)

\* C28: disconnecting the UI store from the emitter (disconnectFromStore or
\* reset) leaves the listeners of everyone else registered, those of a
\* controller that awaits a step included, and doing it again changes
\* nothing more.
C28_DisconnectLeavesOthers ==
  [][DisconnectFromStore
       => /\ \A l \in listeners : l \notin StoreListeners => l \in listeners'
          /\ \A l \in StoreListeners : l \notin listeners']_vars

\* C30: backoffDelay(n) = 1000 * 2^(n-1) exactly, and a run that sleeps
\* before a retry sleeps the delay computed from the number of the attempt
\* that just failed: 1000, 2000 and 4000 ms before the 1st, 2nd and 3rd
\* retry, and the retry begins no sooner than that delay after the sleep began.
C30_BackoffDoubles ==
  /\ [](\A n \in 1..MaxAttempt : backoffDelay(n) = 1000 * 2^(n - 1))
  /\ [](\A r \in Runs :
          runs[r].pc = "sleeping"
          => /\ runs[r].attempt \in 1..3
             /\ runs[r].delay = << 1000, 2000, 4000 >>[runs[r].attempt]
             /\ runs[r].since <= now)
  /\ [][\A r \in Runs :
          Wake(r) => /\ now' >= runs[r].since + << 1000, 2000, 4000 >>[runs[r].attempt]
                     /\ runs'[r].attempt = runs[r].attempt + 1
                     /\ runs'[r].step = runs[r].step]_vars

C30_Witness ==
  \E r \in Runs :
    /\ runs[r].pc = "awaiting"
    /\ runs[r].attempt = 4
    /\ runs[r].step = STEP_ORDER[1]
    /\ state.totalRetries = 3
    /\ now = Epoch + 3 * 30000 + 1000 + 2000 + 4000

ApiPhrases ==
  { TXT_404, TXT_429, TXT_500, TXT_RATE_LIMIT, TXT_SERVER_ERROR, TXT_ACCOUNT_NOT_FOUND }

ConnectivityPhrases == { TXT_TIMEOUT, TXT_ECONNABORTED, TXT_NETWORK, TXT_CONNECTION }

Contains(err, phrases) == \E phrase \in phrases : Includes(Text(err.message), phrase)

\* C29: classifyError gives a kind for every input, by the first rule that
\* applies: a TypeError that mentions fetch is a network-error; a SyntaxError
\* a parsing-error; an Error with one of the API phrases an api-error, a
\* connectivity phrase notwithstanding; else an Error with a connectivity
\* phrase a network-error; everything else, plain strings included, an
\* api-error.
C29_ClassifyPrecedence ==
  (applied.fn = "classifyError" /\ ~applied.pending)
  => LET err == applied.input
         kind == applied.output
         fetchTypeError ==
           err.cls = "TypeError" /\ Includes(ToLowerCase(Text(err.message)), TXT_FETCH)
         syntaxError == err.cls = "SyntaxError"
         plainError == err.cls \in {"Error", "TypeError"} /\ ~fetchTypeError
     IN  /\ kind \in {"api-error", "network-error", "parsing-error", "validation-error"}
         /\ fetchTypeError => kind = "network-error"
         /\ syntaxError => kind = "parsing-error"
         /\ (plainError /\ Contains(err, ApiPhrases)) => kind = "api-error"
         /\ (plainError /\ ~Contains(err, ApiPhrases) /\ Contains(err, ConnectivityPhrases))
              => kind = "network-error"
         /\ (plainError /\ ~Contains(err, ApiPhrases) /\ ~Contains(err, ConnectivityPhrases))
              => kind = "api-error"
         /\ err.cls = "string" => kind = "api-error"

\* An Error with an API phrase and a connectivity phrase was classified.
C29_Witness ==
  /\ applied.fn = "classifyError" /\ ~applied.pending
  /\ applied.input.cls = "Error"
  /\ Contains(applied.input, ApiPhrases)
  /\ Contains(applied.input, ConnectivityPhrases)
  /\ applied.output = "api-error"

\* Run q takes a step of its own.
StepOf(q) ==
  \/ RunStepCompleted(q)
  \/ RunStepRejected(q)
  \/ Wake(q)
  \/ RunContinue(q)

\* C32: a run that was in flight when start or restart was invoked makes
\* no further change to the recovery state: while the later call's run is in
\* flight, no step of the earlier run changes the state, the step entries or
\* the partial results.
C32_StartSupersedes ==
  [][\A q \in Runs, r \in Runs :
       ( /\ q < r
         /\ InFlight(q)
         /\ runs[r].method \in {"start", "restart"}
         /\ StepOf(q) )
       => UNCHANGED << state, heap, partialResults >>]_vars

\* C33: while a run sleeps in a backoff the retried step has status running
\* and failedStep is null; a step is left failed only where the run halts
\* with failedStep set to it, its retries exhausted or its error not
\* retryable.
C33_RunningWhileBackoff ==
  /\ [](\A r \in Runs :
          runs[r].pc = "sleeping"
          => /\ StatusOf(heap, Mine(r), runs[r].step) = "running"
             /\ Mine(r).failedStep = NULL)
  /\ [][\A s \in Steps :
          ( /\ StatusOf(heap', state', s) = "failed"
            /\ ~( /\ state'.stepStates = state.stepStates
                  /\ StatusOf(heap, state, s) = "failed" ) )
          => /\ state'.failedStep = s
             /\ \E r \in Runs :
                  /\ RunStepRejected(r)
                  /\ runs[r].step = s
                  /\ ~ShouldRetry(isRetryable(classifyError(runs[r].err)), runs[r].attempt)]_vars

\* The workers the recovery service has launched.
Launched == { w \in Runs : workers[w].pc # "none" }

\* C35: the worker is launched exactly once by each call of start,
\* retryFailedStep or resume that passes its precondition (restart launches
\* through start), and by nothing else: an automatic retry launches no worker,
\* a call refused by its precondition launches none, and a worker that has
\* terminated with an error stays terminated.
C35_WorkerLaunchedOncePerCall ==
  /\ [][Launched' # Launched
          => \E r \in Runs :
               /\ r \notin Launched
               /\ Launched' = Launched \cup {r}
               /\ runs[r].pc = "idle"
               /\ runs'[r].method \in {"start", "restart", "retryFailedStep", "resume"}
               /\ calls' = calls + 1]_vars
  /\ [][\A r \in Runs :
          (runs[r].pc = "idle" /\ runs'[r].method # "none")
          => Launched' = Launched \cup {r} /\ r \notin Launched]_vars
  /\ [][\A r \in Runs :
          (runs[r].pc = "idle" /\ runs'[r] = Returned(Null))
          => workers' = workers]_vars
  /\ [][\A w \in Runs :
          workers[w].pc = "failed" => workers'[w] = workers[w]]_vars

C35_Witness ==
  \E r \in Runs :
    /\ runs[r].pc = "awaiting"
    /\ runs[r].attempt >= 2
    /\ Launched = {r}
    /\ calls = 1

\* C36: every failure the controller records comes from awaitStep, which
\* rejects with a plain Error: the recorded error is an api-error or a
\* network-error and retryable, never a parsing or validation error, and a
\* run halts only at attempt MAX_RETRIES + 1, after MAX_RETRIES automatic
\* retries of the step.
C36_OnlyRetryableFailures ==
  /\ [](\A r \in Runs : runs[r].pc = "rejected" => runs[r].err.cls = "Error")
  /\ [](\A s \in Steps :
          LET e == EntryOf(heap, state, s).error
          IN  e.kind = "error"
              => /\ e.type \in {"api-error", "network-error"}
                 /\ e.retryable = TRUE)
  /\ [][\A r \in Runs :
          (runs[r].pc = "rejected" /\ runs'[r].pc = "returned")
          => /\ runs[r].attempt = MAX_RETRIES + 1
             /\ MineAfter(r).failedStep = runs[r].step]_vars

C36_Witness ==
  /\ state.failedStep # NULL
  /\ LET e == EntryOf(heap, state, state.failedStep).error
     IN  /\ e.kind = "error"
         /\ e.type = "api-error"
         /\ e.retryable = TRUE
         /\ e.attempt = MAX_RETRIES + 1
  /\ \E s \in Steps :
       /\ EntryOf(heap, state, s).error.kind = "error"
       /\ EntryOf(heap, state, s).error.type = "network-error"

\* C37: isPartial is assigned only where a run halts (completedSteps is then
\* non-empty or not) and by the reset of start and restart: retryFailedStep
\* and resume leave it alone, so once true it stays true until start or
\* restart, also when the recovered run completes every step.
C37_PartialFlagSticks ==
  /\ [][state'.isPartial # state.isPartial
          => \/ \E r \in Runs :
                  /\ runs[r].pc = "rejected"
                  /\ runs'[r].pc = "returned"
                  /\ state'.isPartial = (Len(state.completedSteps) > 0)
             \/ \E r \in Runs :
                  /\ runs[r].pc = "idle"
                  /\ runs'[r].method \in {"start", "restart"}]_vars
  /\ [][(state.isPartial /\ ~state'.isPartial)
          => \E r \in Runs :
               /\ runs[r].pc = "idle"
               /\ runs'[r].method \in {"start", "restart"}]_vars
  /\ [][\A r \in Runs :
          (runs[r].pc = "idle" /\ runs'[r].method \in {"retryFailedStep", "resume"})
          => state'.isPartial = state.isPartial]_vars

\* A recovered run has completed every step and the state still says partial.
C37_Witness ==
  /\ state.isPartial
  /\ state.failedStep = NULL
  /\ Len(state.completedSteps) = Len(STEP_ORDER)
  /\ \A s \in Steps : StatusOf(heap, state, s) = "completed"
  /\ \A r \in Runs : ~InFlight(r)

\* C38: while calls are made only when no run is in flight, a step is in
\* completedSteps exactly when its status is completed or skipped, and the
\* failed step is not in completedSteps.
C38_CompletedIffStatus ==
  ~limits.overlap
  => /\ \A s \in Steps :
          InSeq(s, state.completedSteps)
          <=> StatusOf(heap, state, s) \in {"completed", "skipped"}
     /\ state.failedStep # NULL => ~InSeq(state.failedStep, state.completedSteps)

\* A run halted at a step after completing others.
C38_Witness ==
  /\ ~limits.overlap
  /\ state.failedStep # NULL
  /\ StatusOf(heap, state, state.failedStep) = "failed"
  /\ Len(state.completedSteps) >= 2
  /\ \A s \in Steps :
       InSeq(s, state.completedSteps) => StatusOf(heap, state, s) = "completed"

\* The steps the progress store has recorded as completed.
RecordedSteps == { s \in Steps : store.completedStepRecord[s] }

\* The completedSteps counter is the number of distinct steps completed, at
\* most the seven steps of the registry.
CounterIsDistinctSteps ==
  /\ store.completedSteps = Cardinality(RecordedSteps)
  /\ store.completedSteps <= Len(STEP_ORDER)

\* C31, as stated: in every state the store reaches, completeStep of a step
\* that is already recorded as completed leaves the whole store unchanged,
\* and (where no state is loaded from localStorage) the completedSteps
\* counter is the number of distinct steps completed, never more than 7.
C31_CompleteStepLeavesStoreUnchanged ==
  /\ \A step \in Steps :
       Recorded(store, step) => completeStep(Ui, step, now).store = store
  /\ ~limits.persistence => CounterIsDistinctSteps

\* C31, amended: in every state the store reaches, completeStep of a step
\* that is already recorded as completed leaves completedStepRecord,
\* stepProgress and the completedSteps counter as they are and does to the
\* store what updateOverallProgress() alone does: while the store is loading
\* and not cancelled, overallProgress and estimatedTimeRemaining are
\* recomputed from stepProgress and the clock.  Where no state is loaded from
\* localStorage the completedSteps counter is the number of distinct steps
\* completed, never more than 7.
C31_CompleteStepIdempotent ==
  /\ LET updated == updateOverallProgress(store, now)
     IN  \A step \in Steps :
           Recorded(store, step)
           => LET after == completeStep(Ui, step, now).store
              IN  /\ after.completedStepRecord = store.completedStepRecord
                  /\ after.stepProgress = store.stepProgress
                  /\ after.completedSteps = store.completedSteps
                  /\ after = updated
  /\ ~limits.persistence => CounterIsDistinctSteps

\* Every step has been completed, some time after the start, in a loading store.
C31_Witness ==
  /\ store.isLoading
  /\ RecordedSteps = Steps
  /\ store.completedSteps = Len(STEP_ORDER)
  /\ store.overallProgress = 100
  /\ now > store.startTime

\* The positions of the events of one type in the trace.
EventsOf(type) == { i \in 1..Len(trace) : trace[i].type = type }

\* The step in progress at position i: the step of the last step-change before it.
StepInProgress(i) ==
  LET before == { j \in EventsOf("step-change") : j < i }
  IN  IF before = {} THEN STEP_ORDER[1] ELSE trace[Max(before)].step

\* C34: in one indexAccount run the step-change events name the steps in
\* registry order; step-change(S) comes before every step-progress(S) and
\* before step-complete(S); indexing-complete comes only after
\* step-complete(finalizing); a run that fails emits exactly one step-error,
\* naming the step in progress, and no event after it.  (A run that fails
\* at getHorizonServer(network), before its try block, emits none.)
C34_WorkerEventOrder ==
  /\ \A i \in EventsOf("step-change") :
       trace[i].step = STEP_ORDER[Cardinality({ j \in EventsOf("step-change") : j <= i })]
  /\ \A i \in EventsOf("step-progress") \cup EventsOf("step-complete") :
       \E j \in EventsOf("step-change") : j < i /\ trace[j].step = trace[i].step
  /\ \A i \in EventsOf("indexing-complete") :
       \E j \in EventsOf("step-complete") : j < i /\ trace[j].step = STEP_ORDER[Len(STEP_ORDER)]
  /\ \A i \in EventsOf("step-error") :
       /\ i = Len(trace)
       /\ trace[i].step = StepInProgress(i)
       /\ \A j \in EventsOf("step-complete") : trace[j].step # trace[i].step
  /\ Cardinality(EventsOf("step-error")) = (IF indexer.pc = "failed" THEN 1 ELSE 0)
  /\ Cardinality(EventsOf("indexing-complete")) = (IF indexer.pc = "done" THEN 1 ELSE 0)

\* The callers whose request function is executing.
Executing39 == { c \in Callers : callers[c] = "running" }

\* The callers that hold a slot: fn executing, or settled with the finally
\* block still to run.
Holding == { c \in Callers : callers[c] \in {"running"} \cup Outcomes }

\* C39: never more than MAX_CONCURRENT_REQUESTS request functions execute at
\* once, whoever the callers are; the finally block gives the slot back
\* whether the request resolved or rejected; and a caller that waits for a
\* slot is eventually admitted: a caller leaves the queue only to test the
\* count again and leaves that test only with a slot or back in the queue,
\* so it is admitted if again and again no caller is left waiting.
C39_AtMostFiveAtOnce ==
  /\ [](/\ Cardinality(Executing39) <= MAX_CONCURRENT_REQUESTS
        /\ manager.active = Cardinality(Holding)
        /\ manager.active <= MAX_CONCURRENT_REQUESTS)
  /\ [][\A c \in Callers :
          (callers[c] \in Outcomes /\ callers'[c] = "idle")
          => manager'.active = manager.active - 1]_vars
  /\ []<>(\A c \in Callers : callers[c] \notin {"waiting", "woken"})

\* A caller waits while five requests execute, one of them about to reject.
C39_Witness ==
  /\ Cardinality(Holding) = MAX_CONCURRENT_REQUESTS
  /\ \E c \in Callers : callers[c] = "rejected"
  /\ \E c \in Callers : callers[c] = "waiting" /\ manager.queue = << c >>

====
